---- MODULE Spec2Model ----
(***************************************************************************)
(* Model of the home-control hub's command dispatcher (ServiceManager),    *)
(* its subscription table and targeted broadcasts, of the network clients  *)
(* whose disconnects it observes, of the routines it schedules, and of the *)
(* Philips Hue service's synchronization with the bridge.                  *)
(*                                                                         *)
(* JavaScript values that travel through the dispatcher are modelled as    *)
(* records [type, val]: `type` is what `typeof` yields, `val` the textual  *)
(* form of the value.  A raw parameter bag is a function from the keys it  *)
(* owns to such values.                                                    *)
(***************************************************************************)
EXTENDS Integers, Sequences, FiniteSets, Bags, TLC

VARIABLES
    commands,       \* ServiceManager.commands: command id -> descriptor
    subscriptions,  \* ServiceManager.subscriptions: Array<SubscriptionInfo>
    observers,      \* NetworkClient.observers, per client (TRUE: the manager observes)
    closed,         \* clients whose WebSocket has emitted 'close'
    pending,        \* dispatchCommand calls suspended at `await handler(...)`
    notified,       \* history: clients for which onClientDisconnected has run
    joined,         \* history: <<client, command, args>> of completed subscribing dispatches
    lastOp,         \* history: the operation that produced this state and its outcome
    wire,           \* history: what the operation that produced this state sent
    services,       \* ServiceManager.services: identifiers of the stored services
    timers,         \* routines for which a setTimeout(executeRoutine) is pending
    running,        \* routines suspended at `await routine.callbackFn()`
    lastRun,        \* history: the last step of executeRoutine and its outcome
    bridge,         \* Interface.bridge: the cached snapshot of the Hue bridge
    connected,      \* Connection.connected
    lastSync,       \* history: the last synchronization cycle and its outcome
    fetching,       \* the fetch cycle of updateBridge and what its fetches have yielded
    origin,         \* history: the cycle each part of the cached snapshot was fetched in
    lastHue,        \* history: the last call a command made on the Interface
    given,          \* history: the state each client was last sent for each group
    handling,       \* Network: inbound messages whose command is being awaited
    closing,        \* Network: clients on whose WebSocket the server has called close()
    network,        \* history: the last step of the message handler and what it sent
    controlState,   \* ControlConnection.#state
    socket,         \* ControlConnection.#socket: its readyState ("NONE" before connect)
    responses,      \* ControlConnection.#responses: the message ids that hold a resolver
    promises,       \* the promises sendInternal has created, by message id
    inFlight,       \* message ids the hub has received on the socket and not answered
    reconnectTimers, \* number of pending setTimeout(connect, kReconnectionTimeoutMs)
    trace           \* history: the last step of the ControlConnection and its outcome

hubVars == <<commands, subscriptions, observers, closed, pending, notified, joined, lastOp>>
routineVars == <<services, timers, running, lastRun>>
hueVars == <<bridge, connected, lastSync, fetching, origin, lastHue, given>>
serverVars == <<handling, closing, network>>
controlVars == <<controlState, socket, responses, promises, inFlight, reconnectTimers, trace>>
netVars == <<serverVars, controlVars>>

vars == <<commands, subscriptions, observers, closed, pending, notified, joined, lastOp,
          wire, services, timers, running, lastRun, bridge, connected, lastSync,
          fetching, origin, lastHue, given, handling, closing, network, controlState,
          socket, responses, promises, inFlight, reconnectTimers, trace>>

-----------------------------------------------------------------------------
(* Bounds *)

\* Number of dispatchCommand calls that may be suspended at the same time.
MaxInFlight == 2

\* Number of tags that tell the fetch cycles of updateBridge apart.
CycleTags == 3

\* Number of lights the bridge may report.
MaxLights == 3

\* Connected controllers (one NetworkClient per WebSocket).
Clients == {"A", "B"}

-----------------------------------------------------------------------------
(* JavaScript values *)

S(x) == [type |-> "string", val |-> x]
N(x) == [type |-> "number", val |-> x]
B(x) == [type |-> "boolean", val |-> x]

\* Truthiness of a value, as `!value` reads it.
Truthy(v) ==
    CASE v.type = "boolean" -> v.val = "true"
      [] v.type = "number"  -> v.val \notin {"0", "NaN"}
      [] v.type = "string"  -> v.val # ""

\* ToNumber, as applied by the coercive `==` to operands of different types.
ToNumber(v) ==
    CASE v.type = "number"  -> v.val
      [] v.type = "boolean" -> IF v.val = "true" THEN "1" ELSE "0"
      [] v.type = "string"  -> IF v.val \in {"0", "1"} THEN v.val
                               ELSE IF v.val = "" THEN "0" ELSE "NaN"

\* Leaf comparison of deep-equal without {strict: true}: the coercive `==`.
LooseEq(a, b) ==
    IF a.type = b.type
    THEN a.val = b.val /\ a.val # "NaN"
    ELSE ToNumber(a) = ToNumber(b) /\ ToNumber(a) # "NaN"

\* equal(a, b) of deep-equal on two arrays of primitives, called without
\* options as the manager does: same length, leaves compared coercively.
equal(a, b) ==
    /\ Len(a) = Len(b)
    /\ \A i \in 1..Len(a) : LooseEq(a[i], b[i])

-----------------------------------------------------------------------------
(* Services and their command descriptors *)

Param(n, t, o) == [name |-> n, type |-> t, optional |-> o]

Descriptor(c, svc, ps, sub, h) ==
    [command |-> c, service |-> svc, parameters |-> ps, subscribe |-> sub, handler |-> h]

\* PhilipsHueService.getCommands()
HueCommands ==
    { Descriptor("philips-hue-power", "Philips Hue",
                 <<Param("group", "string", FALSE), Param("on", "boolean", FALSE)>>,
                 FALSE, "handlePowerCommand"),
      Descriptor("philips-hue-brightness", "Philips Hue",
                 <<Param("group", "string", FALSE), Param("brightness", "number", FALSE)>>,
                 FALSE, "handleBrightnessCommand"),
      Descriptor("philips-hue-colour", "Philips Hue",
                 <<Param("group", "string", FALSE), Param("colour", "string", FALSE)>>,
                 FALSE, "handleColourCommand"),
      Descriptor("philips-hue-scene", "Philips Hue",
                 <<Param("group", "string", FALSE), Param("scene", "string", FALSE)>>,
                 FALSE, "handleSceneCommand"),
      Descriptor("philips-hue-state", "Philips Hue",
                 <<Param("group", "string", FALSE)>>,
                 TRUE, "handleStateCommand") }

\* A second implementation of the Service interface: one subscribable command
\* whose handler awaits I/O and whose last parameter is declared optional.
SensorCommands ==
    { Descriptor("sensor-watch", "Sensor",
                 <<Param("room", "string", FALSE), Param("level", "number", TRUE)>>,
                 TRUE, "handleWatchCommand") }

Services == {"Philips Hue", "Sensor"}

getCommands(service) ==
    IF service = "Philips Hue" THEN HueCommands ELSE SensorCommands

\* Handlers that complete without awaiting I/O: handleStateCommand only reads
\* the cached bridge state, so its promise settles within the same turn of the
\* event loop and no socket event can run in between.
SynchronousHandlers == {"handleStateCommand"}

-----------------------------------------------------------------------------
(* dispatchCommand: parameter validation *)

\* `parameters.hasOwnProperty(name)` on the raw parameter bag.
HasOwnProperty(bag, name) == name \in DOMAIN bag

\* The test that decides whether a missing parameter is tolerated.  The code
\* reads `parameters.optional`, the key "optional" of the raw parameter bag.
MissingAllowed(bag, description) ==
    HasOwnProperty(bag, "optional") /\ Truthy(bag["optional"])

\* Variant: the type of a present value is never compared with the declared one.
TypeMatchesUnchecked(value, description) == TRUE

\* `typeof value !== description.type`
TypeMatches(value, description) == value.type = description.type

\* The loop over serviceCommand.parameters, from declared parameter i on, with
\* the values collected so far.  Yields the outcome of the validation and the
\* positional parameterArray.
RECURSIVE Collect(_, _, _, _)
Collect(parameters, bag, i, parameterArray) ==
    IF i > Len(parameters)
    THEN [status |-> "ok", name |-> "", args |-> parameterArray]
    ELSE LET description == parameters[i] IN
         IF ~HasOwnProperty(bag, description.name)
         THEN IF ~MissingAllowed(bag, description)
              THEN [status |-> "missing", name |-> description.name, args |-> <<>>]
              ELSE [status |-> "ok", name |-> "", args |-> parameterArray]
         ELSE IF ~TypeMatches(bag[description.name], description)
              THEN [status |-> "mismatch", name |-> description.name, args |-> <<>>]
              ELSE Collect(parameters, bag, i + 1,
                           Append(parameterArray, bag[description.name]))

ValidateParameters(parameters, bag) == Collect(parameters, bag, 1, <<>>)

\* Variant: every command without a descriptor is answered as the introspection
\* command is.
UnknownCommandAlwaysListing(command) == "listing"

\* Outcome of a dispatch whose command has no descriptor: the introspection
\* command is answered by handleServiceCommands, anything else yields null.
UnknownCommandResult(command) ==
    IF command = "service-commands" THEN "listing" ELSE "null"

-----------------------------------------------------------------------------
(* dispatchCommand: subscription after the handler has returned *)

Min(set) == CHOOSE x \in set : \A y \in set : x <= y

\* Indices of the subscriptions that a (command, parameters) pair matches.
Matching(subs, command, parameters) ==
    { i \in 1..Len(subs) :
        subs[i].command = command /\ equal(subs[i].parameters, parameters) }

\* Variant: step (1) never finds the existing subscription (as when parameter
\* lists are compared by reference), so every dispatch pushes a new one.
SubscribeAlwaysPush(subs, client, command, parameterArray) ==
    [subscriptions |-> Append(subs, [clients |-> {client}, command |-> command,
                                      parameters |-> parameterArray]),
     observe |-> TRUE]

\* Variant: joining an existing subscription replaces its client set.
SubscribeReplacing(subs, client, command, parameterArray) ==
    LET M == Matching(subs, command, parameterArray) IN
    IF M = {}
    THEN [subscriptions |-> Append(subs, [clients |-> {client}, command |-> command,
                                          parameters |-> parameterArray]),
          observe |-> TRUE]
    ELSE [subscriptions |-> [subs EXCEPT ![Min(M)].clients = {client}],
          observe |-> TRUE]

\* Steps (1) and (2): join the first matching subscription, or push a new one.
\* `observe` tells whether step (3), client.addObserver(this), is reached: the
\* fast path returns before it.
Subscribe(subs, client, command, parameterArray) ==
    LET M == Matching(subs, command, parameterArray) IN
    IF M = {}
    THEN [subscriptions |-> Append(subs, [clients |-> {client}, command |-> command,
                                          parameters |-> parameterArray]),
          observe |-> TRUE]
    ELSE LET i == Min(M) IN
         IF client \in subs[i].clients
         THEN [subscriptions |-> subs, observe |-> FALSE]
         ELSE [subscriptions |-> [subs EXCEPT ![i].clients = @ \cup {client}],
               observe |-> TRUE]

\* Number of client.send calls distribute makes per client.
Sends(subs, command, parameters) ==
    [c \in Clients |->
        Cardinality({ i \in Matching(subs, command, parameters) : c \in subs[i].clients })]

\* The object literal `{ command, ...message }`: the properties of the message
\* are copied after `command` has been set, and a key that is set twice keeps
\* the value set last.
ObjectSpread(command, message) ==
    [k \in {"command"} \cup DOMAIN message |->
        IF k \in DOMAIN message THEN message[k] ELSE S(command)]

\* The orders in which the clients of one subscription (a Set) are iterated.
Iterations(clients) ==
    { order \in [1..Cardinality(clients) -> clients] :
        \A i, j \in 1..Cardinality(clients) : order[i] = order[j] => i = j }

\* The orders in which distribute calls client.send: subscription by
\* subscription from index i on, client by client within each.
RECURSIVE SendOrders(_, _, _, _)
SendOrders(subs, command, parameters, i) ==
    IF i > Len(subs) THEN {<<>>}
    ELSE IF i \in Matching(subs, command, parameters)
    THEN { head \o tail : head \in Iterations(subs[i].clients),
                          tail \in SendOrders(subs, command, parameters, i + 1) }
    ELSE SendOrders(subs, command, parameters, i + 1)

\* Variant: each send is awaited inside the loop, so the first failing send
\* ends the iteration.
SendAllAwaitingEach(order, object, failing) ==
    LET bad == { i \in 1..Len(order) : order[i] \in failing }
        last == IF bad = {} THEN Len(order) ELSE Min(bad) IN
    [object |-> object, failing |-> failing,
     attempted |-> { order[i] : i \in 1..last },
     delivered |-> { order[i] : i \in 1..last } \ failing,
     rejected |-> bad # {}]

\* `promii.push(client.send(...))` for every client in turn, then
\* `await Promise.all(promii)`.  NetworkClient.send is an async function: a
\* webSocket.send that throws rejects the promise of that one call, and the
\* loop goes on.  `failing` holds the clients whose socket refuses the message.
\* Yields the object sent, the clients send was called for, the clients whose
\* socket took the message, and whether Promise.all rejected.
SendAll(order, object, failing) ==
    [object |-> object, failing |-> failing,
     attempted |-> { order[i] : i \in 1..Len(order) },
     delivered |-> { order[i] : i \in 1..Len(order) } \ failing,
     rejected |-> \E i \in 1..Len(order) : order[i] \in failing]

\* Variant: a subscription the client was the last member of is taken off the
\* list.
RemoveClientDroppingEmptied(subs, client) ==
    SelectSeq([i \in 1..Len(subs) |-> [subs[i] EXCEPT !.clients = @ \ {client}]],
              LAMBDA sub : sub.clients # {})

\* onClientDisconnected: the client leaves every subscription.
RemoveClient(subs, client) ==
    [i \in 1..Len(subs) |-> [subs[i] EXCEPT !.clients = @ \ {client}]]

-----------------------------------------------------------------------------
(* Routines *)

\* Upper limit of a routine's interval: one day.
kMaximumIntervalSeconds == 86400

\* A ServiceRoutine, with the service that returned it and its place in the
\* array returned by getRoutines().
Routine(service, index, intervalSeconds, callbackFn) ==
    [service |-> service, index |-> index, intervalSeconds |-> intervalSeconds,
     callbackFn |-> callbackFn]

\* PhilipsHueService.getRoutines()
HueRoutines == <<Routine("Philips Hue", 1, 60, "updateState")>>

\* The test addService applies to a routine before it sets the first timer.
IntervalOutOfBounds(routine) ==
    routine.intervalSeconds <= 0 \/ routine.intervalSeconds > kMaximumIntervalSeconds

\* The loop of addService over service.getRoutines(), from routine i on:
\* throws at the first routine whose interval is out of bounds, and calls
\* setTimeout for every routine it passes before that.
RECURSIVE ScheduleRoutines(_, _, _)
ScheduleRoutines(routines, i, scheduled) ==
    IF i > Len(routines) THEN [result |-> "ok", timers |-> scheduled]
    ELSE IF IntervalOutOfBounds(routines[i])
    THEN [result |-> "throw", timers |-> scheduled]
    ELSE ScheduleRoutines(routines, i + 1, scheduled (+) SetToBag({routines[i]}))

-----------------------------------------------------------------------------
(* Philips Hue: snapshots of the bridge and the state composed from them *)

\* The value of a number that is not a number (0 / 0, x / 0 * 0).  Brightness
\* and colour channels are otherwise never negative.
NaN == -1

Add(a, b) == IF a = NaN \/ b = NaN THEN NaN ELSE a + b

\* Math.floor(a / n) for a sum a and a count n >= 1.
FloorDiv(a, n) == IF a = NaN THEN NaN ELSE a \div n

\* `a == b` on two numbers.
NumEq(a, b) == a # NaN /\ a = b

RECURSIVE Sum(_)
Sum(seq) == IF seq = <<>> THEN 0 ELSE Add(Head(seq), Sum(Tail(seq)))

Group(name, lights) == [name |-> name, lights |-> lights]
Light(on, brightness, colour) == [on |-> on, brightness |-> brightness, colour |-> colour]
Scene(id, group, name) == [id |-> id, group |-> group, name |-> name]

\* A Bridge: groups and lights by numeric id, scenes in the order of the Map.
Bridge(groups, lights, scenes) == [groups |-> groups, lights |-> lights, scenes |-> scenes]

kDefaultBridge == Bridge(<<>>, <<>>, <<>>)

\* Whether findGroupIdOrThrow finds a group of the given name.
KnownGroup(group, b) == \E id \in DOMAIN b.groups : b.groups[id].name = group

\* findGroupIdOrThrow, where it does not throw.
findGroupId(group, b) == CHOOSE id \in DOMAIN b.groups : b.groups[id].name = group

\* Variant: the lights that are off are averaged with those that are on.
RECURSIVE PoweredLightsIncludingOff(_, _)
PoweredLightsIncludingOff(lights, b) ==
    IF lights = <<>> THEN <<>>
    ELSE IF Head(lights) \in DOMAIN b.lights
    THEN <<b.lights[Head(lights)]>> \o PoweredLightsIncludingOff(Tail(lights), b)
    ELSE PoweredLightsIncludingOff(Tail(lights), b)

\* The member lights of a group that the snapshot holds and that are on.
RECURSIVE PoweredLights(_, _)
PoweredLights(lights, b) ==
    IF lights = <<>> THEN <<>>
    ELSE IF Head(lights) \in DOMAIN b.lights /\ b.lights[Head(lights)].on
    THEN <<b.lights[Head(lights)]>> \o PoweredLights(Tail(lights), b)
    ELSE PoweredLights(Tail(lights), b)

Channel(colours, k) == [i \in 1..Len(colours) |-> colours[i][k]]

\* composeState(group, bridge) for a group the snapshot knows.
composeState(group, b) ==
    LET id == findGroupId(group, b)
        powered == PoweredLights(b.groups[id].lights, b)
        brightnesses == IF powered = <<>> THEN <<0>>
                        ELSE [i \in 1..Len(powered) |-> powered[i].brightness]
        colours == IF powered = <<>> THEN << <<0, 0, 0>> >>
                   ELSE [i \in 1..Len(powered) |-> powered[i].colour]
        owned == SelectSeq(b.scenes, LAMBDA scene : scene.group = id) IN
    [on |-> powered # <<>>,
     brightness |-> FloorDiv(Sum(brightnesses), Len(brightnesses)),
     colour |-> [k \in 1..3 |-> FloorDiv(Sum(Channel(colours, k)), Len(colours))],
     scenes |-> [i \in 1..Len(owned) |-> [name |-> owned[i].name, colour |-> <<0, 0, 0>>]]]

\* equal(existingState, updatedState) of deep-equal on two State objects,
\* called without options: numbers are compared with `==`.
StateEqual(a, b) ==
    /\ a.on = b.on
    /\ NumEq(a.brightness, b.brightness)
    /\ \A k \in 1..3 : NumEq(a.colour[k], b.colour[k])
    /\ Len(a.scenes) = Len(b.scenes)
    /\ \A i \in 1..Len(a.scenes) :
         /\ i <= Len(b.scenes)
         /\ a.scenes[i].name = b.scenes[i].name
         /\ \A k \in 1..3 : NumEq(a.scenes[i].colour[k], b.scenes[i].colour[k])

\* The groups of the cached snapshot that the loop of synchronize does not
\* skip: those whose id the fetched snapshot holds too.
Retained(old, new) == DOMAIN old.groups \cap DOMAIN new.groups

\* The loop of synchronize over this.bridge.groups.  Both states are composed
\* for group.name, the name in the cached snapshot; composeState throws, and
\* synchronize with it, when the fetched snapshot has no group of that name.
Diff(old, new) ==
    IF \E id \in Retained(old, new) : ~KnownGroup(old.groups[id].name, new)
    THEN [result |-> "throw", updates |-> <<>>]
    ELSE LET changed == { id \in Retained(old, new) :
                            ~StateEqual(composeState(old.groups[id].name, old),
                                        composeState(old.groups[id].name, new)) } IN
         [result |-> "ok",
          updates |-> [name \in { old.groups[id].name : id \in changed } |->
                          composeState(name, new)]]

\* What updateBridge settles with: the three fetches put together, or the
\* rejection of Promise.all when one of them fails.
Fetched(b) == [failed |-> "", bridge |-> b]
FetchFailed(which) == [failed |-> which, bridge |-> kDefaultBridge]

\* Variant: the cached snapshot is emptied before the fetches are awaited, so
\* that a failed fetch leaves the default snapshot behind.
SynchronizeClearingFirst(old, answer) ==
    IF answer.failed # ""
    THEN [result |-> "fetch-failed", updates |-> <<>>, bridge |-> kDefaultBridge]
    ELSE LET d == Diff(old, answer.bridge) IN
         [result |-> d.result, updates |-> d.updates,
          bridge |-> IF d.result = "ok" THEN answer.bridge ELSE old]

\* synchronize() from `await this.updateBridge()` on: the diff against the
\* cached snapshot and, unless something threw, `this.bridge = bridge`.
Synchronize(old, answer) ==
    IF answer.failed # ""
    THEN [result |-> "fetch-failed", updates |-> <<>>, bridge |-> old]
    ELSE LET d == Diff(old, answer.bridge) IN
         [result |-> d.result, updates |-> d.updates,
          bridge |-> IF d.result = "ok" THEN answer.bridge ELSE old]

\* updateState's call of distribute for one entry of the map: the object that
\* is sent, how many times each client is sent it, and whether the promise
\* distribute returned rejected.
Broadcast(subs, group, state, failing) ==
    LET order == CHOOSE order \in SendOrders(subs, "philips-hue-state", <<S(group)>>, 1) :
                     TRUE
        sent == SendAll(order,
                        ObjectSpread("philips-hue-state", [group |-> S(group), state |-> state]),
                        failing) IN
    [object |-> sent.object,
     sends |-> Sends(subs, "philips-hue-state", <<S(group)>>),
     rejected |-> sent.rejected]

\* The record kept of a synchronization: how it ended, the map it returned,
\* what updateBridge had settled with, the groups updateState broadcast and
\* what each of these broadcasts sent.
Sync(result, updates, answer, broadcasts, sent) ==
    [result |-> result, updates |-> updates, answer |-> answer, broadcasts |-> broadcasts,
     sent |-> sent]

NoSync == Sync("none", <<>>, FetchFailed("none"), {}, <<>>)

\* What the Promise.all of updateBridge is collecting: the fetch cycle it
\* belongs to, the parts that have been fetched, and the fetch that failed.
Fetching(cycle, parts, failed) == [cycle |-> cycle, parts |-> parts, failed |-> failed]

NoFetching == Fetching(0, <<>>, "")

\* Fetch cycles are numbered 1..CycleTags, starting over after the last; 0 is
\* the snapshot the Interface is constructed with.
NextCycle(cycle) == (cycle % CycleTags) + 1

\* The origin of a snapshot whose three parts were fetched in one cycle.
Whole(cycle) == [groups |-> cycle, lights |-> cycle, scenes |-> cycle]

-----------------------------------------------------------------------------
(* Philips Hue: updating a group *)

\* getLightXY hands the colour and the model of the light to the converter of
\* the colour library; what is kept is the call it makes.
getLightXY(colour, model) == [rgb |-> colour, model |-> model]

\* The field of the GroupLightState that a field of the Update sets.
StateField(key) ==
    CASE key = "on" -> "on"
      [] key = "brightness" -> "bri"
      [] key = "colour" -> "xy"
      [] key = "scene" -> "scene"

\* Variant: the percentage is scaled to 255.
GroupLightStateScalingTo255(patch, sceneId) ==
    [field \in { StateField(key) : key \in DOMAIN patch } |->
        CASE field = "on" -> patch.on
          [] field = "bri" -> (patch.brightness * 255) \div 100
          [] field = "xy" -> getLightXY(patch.colour, "LCT010")
          [] field = "scene" -> sceneId]

\* The GroupLightState update() builds from the fields the Update has.
GroupLightState(patch, sceneId) ==
    [field \in { StateField(key) : key \in DOMAIN patch } |->
        CASE field = "on" -> patch.on
          [] field = "bri" -> (patch.brightness * 254) \div 100
          [] field = "xy" -> getLightXY(patch.colour, "LCT010")
          [] field = "scene" -> sceneId]

\* Variant: a scene of the given name is taken whatever group owns it.
RECURSIVE FindSceneOfAnyGroup(_, _, _, _)
FindSceneOfAnyGroup(scenes, i, id, name) ==
    IF i > Len(scenes) THEN ""
    ELSE IF scenes[i].name = name THEN scenes[i].id
    ELSE FindSceneOfAnyGroup(scenes, i + 1, id, name)

\* The loop of update() over the scenes of the cached snapshot, from the i-th
\* on: the id of the first scene of the group that carries the name, "" (for
\* null) when there is none.
RECURSIVE FindScene(_, _, _, _)
FindScene(scenes, i, id, name) ==
    IF i > Len(scenes) THEN ""
    ELSE IF scenes[i].group = id /\ scenes[i].name = name THEN scenes[i].id
    ELSE FindScene(scenes, i + 1, id, name)

\* A call of connection.api.groups.setGroupState.
SetGroupState(id, state) == [id |-> id, state |-> state]

\* Variant: the percentage is not validated.
updateUnvalidated(b, group, patch) ==
    IF ~KnownGroup(group, b) THEN [result |-> "not-found", sets |-> <<>>]
    ELSE LET id == findGroupId(group, b)
             sceneId == IF "scene" \in DOMAIN patch
                        THEN FindScene(b.scenes, 1, id, patch.scene) ELSE "" IN
         IF "scene" \in DOMAIN patch /\ sceneId = ""
         THEN [result |-> "not-found", sets |-> <<>>]
         ELSE [result |-> "call",
               sets |-> <<SetGroupState(id, GroupLightState(patch, sceneId))>>]

\* Variant: the state is sent with every field, those the Update lacks
\* switched off.
updateSendingEveryField(b, group, patch) ==
    IF ~KnownGroup(group, b) THEN [result |-> "not-found", sets |-> <<>>]
    ELSE LET id == findGroupId(group, b)
             sceneId == IF "scene" \in DOMAIN patch
                        THEN FindScene(b.scenes, 1, id, patch.scene) ELSE "" IN
         IF "brightness" \in DOMAIN patch
                /\ (patch.brightness < 0 \/ patch.brightness > 100)
         THEN [result |-> "invalid-argument", sets |-> <<>>]
         ELSE IF "scene" \in DOMAIN patch /\ sceneId = ""
         THEN [result |-> "not-found", sets |-> <<>>]
         ELSE [result |-> "call",
               sets |-> <<SetGroupState(id,
                            GroupLightState(patch, sceneId) @@ [on |-> FALSE])>>]

\* update(group, update) on the snapshot b, up to the call of the bridge: how
\* it ends ("call" when it goes on to await setGroupState) and the calls it
\* has made.  The percentage of an Update is a number the command was given,
\* never the stand-in for NaN.
update(b, group, patch) ==
    IF ~KnownGroup(group, b) THEN [result |-> "not-found", sets |-> <<>>]
    ELSE LET id == findGroupId(group, b)
             sceneId == IF "scene" \in DOMAIN patch
                        THEN FindScene(b.scenes, 1, id, patch.scene) ELSE "" IN
         IF "brightness" \in DOMAIN patch
                /\ (patch.brightness < 0 \/ patch.brightness > 100)
         THEN [result |-> "invalid-argument", sets |-> <<>>]
         ELSE IF "scene" \in DOMAIN patch /\ sceneId = ""
         THEN [result |-> "not-found", sets |-> <<>>]
         ELSE [result |-> "call",
               sets |-> <<SetGroupState(id, GroupLightState(patch, sceneId))>>]

-----------------------------------------------------------------------------
(* History records *)

NoSends == [c \in Clients |-> 0]

NoWire ==
    [object |-> <<>>, failing |-> {}, attempted |-> {}, delivered |-> {}, rejected |-> FALSE]

\* The record kept of a step of executeRoutine: "fired" when the callback is
\* awaited, "settled" when the run has completed and how.
Run(op, routine, result) == [op |-> op, routine |-> routine, result |-> result]

NoRun == Run("none", Routine("", 0, 0, ""), "")

\* The record kept of a call on the Interface: the method, the group and the
\* Update it was given, how it ended, the state it returned, the calls it made
\* of the bridge, the origin of the snapshot it read and whether a
\* synchronization was suspended in updateBridge meanwhile.
Access(op, group, patch, result, state, sets, from, during) ==
    [op |-> op, group |-> group, patch |-> patch, result |-> result, state |-> state,
     sets |-> sets, from |-> from, during |-> during]

NoAccess == Access("none", "", <<>>, "", <<>>, <<>>, Whole(0), FALSE)

Op(op, client, command, bag, args, result, name, subscribe, raced, sends) ==
    [op |-> op, client |-> client, command |-> command, bag |-> bag, args |-> args,
     result |-> result, name |-> name, subscribe |-> subscribe, raced |-> raced,
     sends |-> sends]

Call(client, command, args, subscribe, raced) ==
    [client |-> client, command |-> command, args |-> args, subscribe |-> subscribe,
     raced |-> raced]

\* Whether a call for the same key by another client is suspended right now.
Overlaps(client, command, args) ==
    \E p \in BagToSet(pending) :
        p.client # client /\ p.command = command /\ p.args = args

\* The record kept of a step of the message handler of the Network: "message"
\* when a message has been received and "response" when the command it
\* carried has settled; the client whose socket it was received on, the
\* message (an entry of `handling` for a response) and what was passed to
\* webSocket.send, as a sequence of [client, object].
Inbound(op, client, message, sends) ==
    [op |-> op, client |-> client, message |-> message, sends |-> sends]

NoInbound == Inbound("none", "", <<>>, <<>>)

\* The record kept of a step of the ControlConnection: the method that ran,
\* the event it dispatched ("" for none), whether it threw, and the message
\* id it created or was given (0 for none).
Step(op, dispatched, threw, id) ==
    [op |-> op, dispatched |-> dispatched, threw |-> threw, id |-> id]

NoStep == Step("none", "", FALSE, 0)

\* No message has been received and the ControlConnection has been constructed.
Constructed ==
    /\ handling = {}
    /\ closing = {}
    /\ network = NoInbound
    /\ controlState = "DISCONNECTED"
    /\ socket = "NONE"
    /\ responses = {}
    /\ promises = <<>>
    /\ inFlight = {}
    /\ reconnectTimers = 0
    /\ trace = NoStep

-----------------------------------------------------------------------------
(* Actions *)

Init ==
    /\ commands = <<>>
    /\ subscriptions = <<>>
    /\ observers = [c \in Clients |-> FALSE]
    /\ closed = {}
    /\ pending = EmptyBag
    /\ notified = {}
    /\ joined = {}
    /\ lastOp = Op("init", "", "", <<>>, <<>>, "", "", FALSE, FALSE, NoSends)
    /\ wire = NoWire
    /\ services = {}
    /\ timers = EmptyBag
    /\ running = EmptyBag
    /\ lastRun = NoRun
    /\ bridge = kDefaultBridge
    /\ connected = FALSE
    /\ lastSync = NoSync
    /\ fetching = NoFetching
    /\ origin = Whole(0)
    /\ lastHue = NoAccess
    /\ given = <<>>
    /\ Constructed

\* addService(service).  `routines` is what service.getRoutines() returns and
\* `answer` what the bridge answers to the first synchronize of the Philips
\* Hue service ("connection": no bridge was found or it refused the hub).
\* A service whose initialize() yields false is skipped, one whose
\* initialize() throws makes addService throw before anything is stored.  For
\* any other, the service and its commands are stored, overwriting by
\* identifier, and then its routines are scheduled one by one.
AddService(service, routines, answer) ==
    LET new == getCommands(service)
        ids == { d.command : d \in new }
        sync == Synchronize(bridge, answer)
        cycle == NextCycle(fetching.cycle)
        scheduled == ScheduleRoutines(routines, 1, timers) IN
    /\ service \notin services
    /\ IF service = "Philips Hue" /\ answer.failed = "connection"
       THEN /\ lastOp' = Op("addService", "", service, <<>>, <<>>, "skipped", "", FALSE,
                            FALSE, NoSends)
            /\ UNCHANGED <<commands, services, timers, bridge, connected, lastSync,
                           fetching, origin>>
       ELSE IF service = "Philips Hue" /\ sync.result # "ok"
       THEN /\ connected' = TRUE
            /\ lastSync' = Sync(sync.result, sync.updates, answer, {}, <<>>)
            /\ fetching' = Fetching(cycle, <<>>, "")
            /\ UNCHANGED origin
            /\ lastOp' = Op("addService", "", service, <<>>, <<>>, "throw", "", FALSE,
                            FALSE, NoSends)
            /\ UNCHANGED <<commands, services, timers, bridge>>
       ELSE /\ commands' = [c \in (DOMAIN commands) \cup ids |->
                              IF c \in ids THEN CHOOSE d \in new : d.command = c
                              ELSE commands[c]]
            /\ services' = services \cup {service}
            /\ timers' = scheduled.timers
            /\ lastOp' = Op("addService", "", service, <<>>, <<>>, scheduled.result, "",
                            FALSE, FALSE, NoSends)
            /\ IF service = "Philips Hue"
               THEN /\ connected' = TRUE
                    /\ bridge' = sync.bridge
                    /\ lastSync' = Sync(sync.result, sync.updates, answer, {}, <<>>)
                    /\ fetching' = Fetching(cycle, <<>>, "")
                    /\ origin' = Whole(cycle)
               ELSE UNCHANGED <<bridge, connected, lastSync, fetching, origin>>
    /\ wire' = NoWire
    /\ UNCHANGED <<subscriptions, observers, closed, pending, notified, joined, running,
                   lastRun, lastHue, given, netVars>>

\* What a handler may do with the arguments it is given.  handleStateCommand
\* composes the state of the named group and throws when no group carries the
\* name (always so when the name is undefined); the other handlers call the
\* bridge and fail whenever it does.
HandlerOutcomes(handler, args) ==
    IF handler = "handleStateCommand" /\ Len(args) = 0 THEN {"throw"} ELSE {"ok", "throw"}

\* Variant: the client is subscribed whether or not the handler succeeded (as
\* when the subscription is made before the handler is awaited).
AfterHandlerAlwaysSubscribing(call, outcome, bag, op) ==
    IF call.subscribe
    THEN LET r == Subscribe(subscriptions, call.client, call.command, call.args) IN
         /\ subscriptions' = r.subscriptions
         /\ observers' = IF r.observe THEN [observers EXCEPT ![call.client] = TRUE]
                         ELSE observers
         /\ joined' = joined \cup {<<call.client, call.command, call.args>>}
         /\ lastOp' = Op(op, call.client, call.command, bag, call.args, outcome, "",
                         call.subscribe, call.raced, NoSends)
    ELSE /\ lastOp' = Op(op, call.client, call.command, bag, call.args, outcome, "",
                         call.subscribe, call.raced, NoSends)
         /\ UNCHANGED <<subscriptions, observers, joined>>

\* The part of dispatchCommand that runs once `await handler(...)` has settled.
AfterHandler(call, outcome, bag, op) ==
    IF outcome = "ok" /\ call.subscribe
    THEN LET r == Subscribe(subscriptions, call.client, call.command, call.args) IN
         /\ subscriptions' = r.subscriptions
         /\ observers' = IF r.observe THEN [observers EXCEPT ![call.client] = TRUE]
                         ELSE observers
         /\ joined' = joined \cup {<<call.client, call.command, call.args>>}
         /\ lastOp' = Op(op, call.client, call.command, bag, call.args, "ok", "",
                         call.subscribe, call.raced, NoSends)
    ELSE /\ lastOp' = Op(op, call.client, call.command, bag, call.args, outcome, "",
                         call.subscribe, call.raced, NoSends)
         /\ UNCHANGED <<subscriptions, observers, joined>>

\* dispatchCommand up to and including the call of the handler.
DispatchCommand(client, command, bag) ==
    /\ client \notin closed
    /\ UNCHANGED <<commands, closed, notified>>
    /\ wire' = NoWire
    /\ UNCHANGED <<routineVars, hueVars, netVars>>
    /\ IF command \notin DOMAIN commands
       THEN /\ lastOp' = Op("dispatch", client, command, bag, <<>>,
                            UnknownCommandResult(command), "", FALSE, FALSE, NoSends)
            /\ UNCHANGED <<subscriptions, observers, pending, joined>>
       ELSE LET serviceCommand == commands[command]
                v == ValidateParameters(serviceCommand.parameters, bag)
                call == Call(client, command, v.args, serviceCommand.subscribe,
                             Overlaps(client, command, v.args)) IN
            IF v.status # "ok"
            THEN /\ lastOp' = Op("dispatch", client, command, bag, <<>>, v.status, v.name,
                                 serviceCommand.subscribe, FALSE, NoSends)
                 /\ UNCHANGED <<subscriptions, observers, pending, joined>>
            ELSE IF serviceCommand.handler \in SynchronousHandlers
            THEN /\ \E outcome \in HandlerOutcomes(serviceCommand.handler, v.args) :
                      AfterHandler(call, outcome, bag, "dispatch")
                 /\ UNCHANGED pending
            ELSE /\ BagCardinality(pending) < MaxInFlight
                 /\ pending' = pending (+) SetToBag({call})
                 /\ lastOp' = Op("dispatch", client, command, bag, v.args, "pending", "",
                                 serviceCommand.subscribe, call.raced, NoSends)
                 /\ UNCHANGED <<subscriptions, observers, joined>>

\* A suspended dispatchCommand resumes: its handler returned or threw.
Resume(call, outcome) ==
    /\ BagIn(call, pending)
    /\ pending' = pending (-) SetToBag({call})
    /\ AfterHandler(call, outcome, <<>>, "resume")
    /\ UNCHANGED <<commands, closed, notified>>
    /\ wire' = NoWire
    /\ UNCHANGED <<routineVars, hueVars, netVars>>

\* distribute(command, parameters, message)
Distribute(command, parameters, message, failing) ==
    /\ lastOp' = Op("distribute", "", command, <<>>, parameters, "", "", FALSE, FALSE,
                    Sends(subscriptions, command, parameters))
    /\ \E order \in SendOrders(subscriptions, command, parameters, 1) :
         wire' = SendAll(order, ObjectSpread(command, message), failing)
    /\ UNCHANGED <<commands, subscriptions, observers, closed, pending, notified, joined>>
    /\ UNCHANGED <<routineVars, hueVars, netVars>>

\* The client's WebSocket emits 'close': every observer is notified.
Disconnect(client) ==
    /\ client \notin closed
    /\ closed' = closed \cup {client}
    /\ IF observers[client]
       THEN /\ subscriptions' = RemoveClient(subscriptions, client)
            /\ notified' = notified \cup {client}
       ELSE UNCHANGED <<subscriptions, notified>>
    /\ joined' = { j \in joined : j[1] # client }
    /\ lastOp' = Op("disconnect", client, "", <<>>, <<>>, "", "", FALSE, FALSE, NoSends)
    /\ UNCHANGED <<commands, observers, pending>>
    /\ wire' = NoWire
    /\ UNCHANGED <<routineVars, hueVars, netVars>>

\* Variant: a routine whose callback threw is not scheduled again.
RescheduleUnlessThrown(scheduled, routine, outcome) ==
    IF outcome = "ok" THEN scheduled (+) SetToBag({routine}) ELSE scheduled

\* The setTimeout that ends executeRoutine, after the try/catch: the timers
\* pending once the run of the routine has ended with the given outcome.
Reschedule(scheduled, routine, outcome) == scheduled (+) SetToBag({routine})

\* Variant: the routine runs at a fixed rate (as with setInterval), the timer
\* staying set while a run is in flight.
ExecuteRoutineAtFixedRate(routine) ==
    /\ BagIn(routine, timers)
    /\ running' = running (+) SetToBag({routine})
    /\ lastRun' = Run("fired", routine, "pending")
    /\ lastOp' = Op("executeRoutine", "", "", <<>>, <<>>, "", "", FALSE, FALSE, NoSends)
    /\ UNCHANGED <<commands, subscriptions, observers, closed, pending, notified, joined,
                   wire, services, timers, hueVars, netVars>>

\* The timer of a routine fires: executeRoutine up to the point where the
\* callback is suspended.  updateState awaits synchronize, which throws before
\* it awaits anything when the connection is down: the exception is caught
\* and the next timer is set within the same turn of the event loop.
ExecuteRoutine(routine) ==
    /\ BagIn(routine, timers)
    /\ IF routine.callbackFn = "updateState" /\ ~connected
       THEN /\ lastSync' = Sync("disconnected", <<>>, FetchFailed("none"), {}, <<>>)
            /\ lastRun' = Run("settled", routine, "throw")
            /\ timers' = Reschedule(timers (-) SetToBag({routine}), routine, "throw")
            /\ UNCHANGED <<running, fetching>>
       ELSE /\ timers' = timers (-) SetToBag({routine})
            /\ running' = running (+) SetToBag({routine})
            /\ lastRun' = Run("fired", routine, "pending")
            /\ fetching' = IF routine.callbackFn = "updateState"
                           THEN Fetching(NextCycle(fetching.cycle), <<>>, "")
                           ELSE fetching
            /\ UNCHANGED lastSync
    /\ lastOp' = Op("executeRoutine", "", "", <<>>, <<>>, "", "", FALSE, FALSE, NoSends)
    /\ UNCHANGED <<commands, subscriptions, observers, closed, pending, notified, joined,
                   wire, services, bridge, connected, origin, lastHue, given, netVars>>

\* The callback of a routine other than updateState settles: the rest of
\* executeRoutine.
CallbackSettled(routine, outcome) ==
    /\ BagIn(routine, running)
    /\ routine.callbackFn # "updateState"
    /\ running' = running (-) SetToBag({routine})
    /\ timers' = Reschedule(timers, routine, outcome)
    /\ lastRun' = Run("settled", routine, outcome)
    /\ lastOp' = Op("executeRoutine", "", "", <<>>, <<>>, outcome, "", FALSE, FALSE, NoSends)
    /\ UNCHANGED <<commands, subscriptions, observers, closed, pending, notified, joined,
                   wire, services, hueVars, netVars>>

\* updateBridge settles while updateState is suspended in synchronize: the
\* rest of synchronize, then updateState's distribute for every entry of the
\* map it returned, then the rest of executeRoutine.  updateState does not
\* await the promises distribute returns: a send that fails (`failing` holds
\* the clients whose socket refuses the message) rejects a promise nobody
\* waits for, and the callback resolves all the same.
FetchSettled(routine, answer, failing) ==
    LET sync == Synchronize(bridge, answer)
        outcome == IF sync.result = "ok" THEN "ok" ELSE "throw"
        sent == [group \in DOMAIN sync.updates |->
                    Broadcast(subscriptions, group, sync.updates[group], failing)]
        told == { p \in Clients \X DOMAIN sent : sent[p[2]].sends[p[1]] > 0 } IN
    /\ BagIn(routine, running)
    /\ routine.callbackFn = "updateState"
    /\ bridge' = sync.bridge
    /\ lastSync' = Sync(sync.result, sync.updates, answer, DOMAIN sync.updates, sent)
    /\ given' = [p \in DOMAIN given \cup told |->
                    IF p \in told THEN sync.updates[p[2]] ELSE given[p]]
    /\ origin' = IF sync.result = "ok" THEN Whole(fetching.cycle) ELSE origin
    /\ fetching' = Fetching(fetching.cycle, <<>>, "")
    /\ running' = running (-) SetToBag({routine})
    /\ timers' = Reschedule(timers, routine, outcome)
    /\ lastRun' = Run("settled", routine, outcome)
    /\ lastOp' = Op("executeRoutine", "", "", <<>>, <<>>, outcome, "", FALSE, FALSE, NoSends)
    /\ UNCHANGED <<commands, subscriptions, observers, closed, pending, notified, joined,
                   wire, services, connected, lastHue, netVars>>

\* Whether updateState is suspended in synchronize, awaiting updateBridge.
Synchronizing == \E routine \in BagToSet(running) : routine.callbackFn = "updateState"

\* Variant: the part is stored in the cached snapshot as soon as it is fetched.
PartFetchedInPlace(which, part) ==
    /\ Synchronizing
    /\ fetching.failed = ""
    /\ which \notin DOMAIN fetching.parts
    /\ fetching' = Fetching(fetching.cycle, fetching.parts @@ (which :> part), "")
    /\ bridge' = [bridge EXCEPT ![which] = part]
    /\ origin' = [origin EXCEPT ![which] = fetching.cycle]
    /\ UNCHANGED <<hubVars, wire, routineVars, connected, lastSync, lastHue, given, netVars>>

\* One of the three fetches of updateBridge resolves: its result waits in
\* Promise.all for the other two.
PartFetched(which, part) ==
    /\ Synchronizing
    /\ fetching.failed = ""
    /\ which \notin DOMAIN fetching.parts
    /\ fetching' = Fetching(fetching.cycle, fetching.parts @@ (which :> part), "")
    /\ UNCHANGED <<hubVars, wire, routineVars, bridge, connected, lastSync, origin, lastHue,
                   given, netVars>>

\* One of the three fetches of updateBridge rejects, and Promise.all with it.
PartFailed(which) ==
    /\ Synchronizing
    /\ fetching.failed = ""
    /\ which \notin DOMAIN fetching.parts
    /\ fetching' = Fetching(fetching.cycle, fetching.parts, which)
    /\ UNCHANGED <<hubVars, wire, routineVars, bridge, connected, lastSync, origin, lastHue,
                   given, netVars>>

\* The Promise.all of updateBridge settles with what the three fetches have
\* yielded, and synchronize goes on.
UpdateBridgeSettled(routine, failing) ==
    IF fetching.failed # ""
    THEN FetchSettled(routine, FetchFailed(fetching.failed), failing)
    ELSE /\ DOMAIN fetching.parts = {"groups", "lights", "scenes"}
         /\ FetchSettled(routine,
                         Fetched(Bridge(fetching.parts.groups, fetching.parts.lights,
                                        fetching.parts.scenes)),
                         failing)

\* dispatchCommand for the state command with the parameter bag {group}: the
\* handler composes the state of the group from the cached snapshot without
\* awaiting anything, the client is subscribed in the same turn of the event
\* loop and is answered with the state.
QueryState(client, group) ==
    LET call == Call(client, "philips-hue-state", <<S(group)>>,
                     commands["philips-hue-state"].subscribe, FALSE)
        known == KnownGroup(group, bridge) IN
    /\ client \notin closed
    /\ "philips-hue-state" \in DOMAIN commands
    /\ AfterHandler(call, IF known THEN "ok" ELSE "throw", [group |-> S(group)], "dispatch")
    /\ lastHue' = IF known
                  THEN Access("composeState", group, <<>>, "ok", composeState(group, bridge),
                              <<>>, origin, Synchronizing)
                  ELSE Access("composeState", group, <<>>, "not-found", <<>>, <<>>, origin,
                              Synchronizing)
    /\ given' = IF known
                THEN [p \in DOMAIN given \cup {<<client, group>>} |->
                        IF p = <<client, group>> THEN composeState(group, bridge)
                        ELSE given[p]]
                ELSE given
    /\ wire' = NoWire
    /\ UNCHANGED <<commands, closed, pending, notified, routineVars, bridge, connected,
                   lastSync, fetching, origin, netVars>>

\* The connection with the bridge is lost or comes back.
ConnectionChange ==
    /\ "Philips Hue" \in services
    /\ connected' = ~connected
    /\ UNCHANGED <<hubVars, wire, routineVars, bridge, lastSync, fetching, origin, lastHue,
                   given, netVars>>

\* handleStateCommand(group): composeState on the cached snapshot, which throws
\* when no group of the snapshot carries the name.
ComposeState(group) ==
    /\ lastHue' = IF KnownGroup(group, bridge)
                  THEN Access("composeState", group, <<>>, "ok", composeState(group, bridge),
                              <<>>, origin, Synchronizing)
                  ELSE Access("composeState", group, <<>>, "not-found", <<>>, <<>>, origin,
                              Synchronizing)
    /\ UNCHANGED <<hubVars, wire, routineVars, bridge, connected, lastSync, fetching,
                   origin, given, netVars>>

\* Variant: the Update is applied to the lights of the group in the cached
\* snapshot once the bridge has accepted it.
CacheAfterUpdateEagerly(b, group, patch, result) ==
    IF result = "ok" /\ "on" \in DOMAIN patch
    THEN [b EXCEPT !.lights =
            [id \in DOMAIN b.lights |->
                IF \E k \in DOMAIN b.groups[findGroupId(group, b)].lights :
                       b.groups[findGroupId(group, b)].lights[k] = id
                THEN [b.lights[id] EXCEPT !.on = patch.on]
                ELSE b.lights[id]]]
    ELSE b

\* The cached snapshot once update() has ended: update() assigns nothing.
CacheAfterUpdate(b, group, patch, result) == b

\* update(group, update), as the handlers of the power, brightness, colour
\* and scene commands call it; `accepted` is whether the bridge accepts the
\* call of setGroupState, which update() awaits and does nothing after.
Update(group, patch, accepted) ==
    LET u == update(bridge, group, patch)
        result == IF u.result # "call" THEN u.result
                  ELSE IF accepted THEN "ok" ELSE "backend-unavailable" IN
    /\ lastHue' = Access("update", group, patch, result, <<>>, u.sets, origin, Synchronizing)
    /\ bridge' = CacheAfterUpdate(bridge, group, patch, result)
    /\ UNCHANGED <<hubVars, wire, routineVars, connected, lastSync, fetching, origin, given,
                   netVars>>

-----------------------------------------------------------------------------
(* Inputs *)

AllDescriptors == HueCommands \cup SensorCommands

CommandIds == { d.command : d \in AllDescriptors } \cup {"service-commands", "unknown"}

\* Names a command's descriptor declares.
Declared(command) ==
    UNION { { d.parameters[i].name : i \in 1..Len(d.parameters) } :
            d \in { e \in AllDescriptors : e.command = command } }

\* Keys of the raw bag that dispatchCommand can read for a command.
KeysRead(command) ==
    {"optional"} \cup (IF command = "service-commands" THEN {"service"} ELSE {}) \cup
    Declared(command)

\* Raw values a controller may put under a key: a truthy and a falsy value of
\* each primitive type.
BagValues == {S("1"), S(""), N("1"), N("0"), B("true"), B("false")}

\* Every raw bag over the keys the dispatcher reads, absent keys included.
BagsOf(command) ==
    UNION { [D -> BagValues] : D \in SUBSET KeysRead(command) }

\* Values a well-behaved controller sends under a declared key.
SampleValues == {S("1"), N("1"), B("true")}

\* Bags a well-behaved controller sends: exactly the declared keys, well typed.
WellFormedBags(command) ==
    { bag \in [Declared(command) -> SampleValues] :
        \A d \in AllDescriptors : d.command = command =>
            \A i \in 1..Len(d.parameters) :
                bag[d.parameters[i].name].type = d.parameters[i].type }

\* Commands whose dispatches are interleaved with disconnects and broadcasts.
SubscribableIds == { d.command : d \in { e \in AllDescriptors : e.subscribe } }

DistributeKeys ==
    { <<S("1")>>, <<S("Kitchen")>>, <<N("1")>>, <<S("1"), N("1")>>, <<N("1"), S("1")>>,
      <<S("1"), B("true")>> }

\* The message updateState broadcasts for a group, its state left opaque.
StateMessage(group) == [group |-> S(group), state |-> S("state")]

\* Messages a service may hand to distribute: the one of updateState, one that
\* has a `command` property of its own, and the empty object.
Messages ==
    { StateMessage("1"), [command |-> S("sensor-reset"), room |-> S("1")], <<>> }

\* Service.getRoutines() of the two services.
getRoutines(service) == IF service = "Philips Hue" THEN HueRoutines ELSE <<>>

\* Largest number of routines a service returns.
MaxRoutines == 2

\* Intervals around the two limits of the accepted range.
IntervalSamples == {-1, 0, 60, 86400, 86401}

\* The arrays a service other than Philips Hue may return from getRoutines().
RoutineLists(service) ==
    UNION { { [i \in 1..n |-> Routine(service, i, intervals[i], "poll")] :
                intervals \in [1..n -> IntervalSamples] } : n \in 0..MaxRoutines }

GroupIds == {1, 2}

GroupNames == {"Kitchen", "Hall"}

\* The lights a group of the given id is made of.
MemberLights(id) == <<id>>

\* The bridge gives every group a name of its own.
GroupMaps ==
    UNION { { [id \in D |-> Group(names[id], MemberLights(id))] :
                names \in { n \in [D -> GroupNames] :
                              \A i, j \in D : n[i] = n[j] => i = j } } :
            D \in SUBSET GroupIds }

\* A light that is off, one that is on, and one that is on with raw
\* brightness 0, for which getLightColour divides 0 by 0.
LightOff == Light(FALSE, 0, <<0, 0, 0>>)
LightOn == Light(TRUE, 100, <<255, 255, 255>>)
LightDark == Light(TRUE, 0, <<NaN, NaN, NaN>>)

\* Light 1 is always reachable; light 2 is on when it is.
LightMaps ==
    { [id \in {1} |-> first] : first \in {LightOff, LightOn, LightDark} } \cup
    { [id \in {1, 2} |-> IF id = 1 THEN first ELSE LightOn] :
        first \in {LightOff, LightOn, LightDark} }

SceneLists == { <<Scene("s1", 1, "Relax")>> }

\* The snapshots updateBridge may put together.
Snapshots ==
    { Bridge(groups, lights, scenes) :
        groups \in GroupMaps, lights \in LightMaps, scenes \in SceneLists }

Answers ==
    { Fetched(b) : b \in Snapshots } \cup
    { FetchFailed(which) : which \in {"groups", "lights", "scenes"} }

\* One group named "1", the name the controllers ask for, with its light on.
SampleBridge ==
    Bridge([id \in {1} |-> Group("1", MemberLights(id))], [id \in {1} |-> LightOn],
           <<Scene("s1", 1, "Relax")>>)

-----------------------------------------------------------------------------
(* The dispatcher under concurrent clients, disconnects and broadcasts *)

Next ==
    \/ \E service \in Services :
         AddService(service, getRoutines(service), Fetched(SampleBridge))
    \/ \E client \in Clients, command \in SubscribableIds :
         \E bag \in WellFormedBags(command) : DispatchCommand(client, command, bag)
    \/ \E call \in BagToSet(pending), outcome \in {"ok", "throw"} : Resume(call, outcome)
    \/ \E command \in SubscribableIds, parameters \in DistributeKeys :
         Distribute(command, parameters, StateMessage("1"), {})
    \/ \E client \in Clients : Disconnect(client)

Spec == Init /\ [][Next]_vars

-----------------------------------------------------------------------------
(* One dispatch of an arbitrary raw message, from a state the hub can be in. *)
(* The initial states are states of Spec: the registry after addService of   *)
(* the Hue service alone or of both services, with an empty table or with    *)
(* the table left by client B's dispatch of philips-hue-state {group: "1"}.  *)

\* The registry after addService has run for the given services.
Registered(added) ==
    LET ds == UNION { getCommands(service) : service \in added } IN
    [c \in { d.command : d \in ds } |-> CHOOSE d \in ds : d.command = c]

\* The subscription table after client B has queried the state of group "1".
PriorSubscription ==
    [clients |-> {"B"}, command |-> "philips-hue-state", parameters |-> <<S("1")>>]

InitDispatch ==
    /\ \E added \in {{"Philips Hue"}, Services} :
         /\ commands = Registered(added)
         /\ services = added
    /\ \E prior \in BOOLEAN :
         /\ subscriptions = IF prior THEN <<PriorSubscription>> ELSE <<>>
         /\ observers = [c \in Clients |-> prior /\ c = "B"]
         /\ joined = IF prior THEN {<<"B", "philips-hue-state", <<S("1")>>>>} ELSE {}
    /\ closed = {}
    /\ pending = EmptyBag
    /\ notified = {}
    /\ lastOp = Op("init", "", "", <<>>, <<>>, "", "", FALSE, FALSE, NoSends)
    /\ wire = NoWire
    /\ timers = SetToBag({ HueRoutines[i] : i \in 1..Len(HueRoutines) })
    /\ running = EmptyBag
    /\ lastRun = NoRun
    /\ bridge = SampleBridge
    /\ connected = TRUE
    /\ lastSync = Sync("ok", <<>>, Fetched(SampleBridge), {}, <<>>)
    /\ fetching = Fetching(1, <<>>, "")
    /\ origin = Whole(1)
    /\ lastHue = NoAccess
    /\ given = <<>>
    /\ Constructed

NextDispatch ==
    \/ /\ lastOp.op = "init"
       /\ \E command \in CommandIds : \E bag \in BagsOf(command) :
            DispatchCommand("A", command, bag)
    \/ \E call \in BagToSet(pending), outcome \in {"ok", "throw"} : Resume(call, outcome)

SpecDispatch == InitDispatch /\ [][NextDispatch]_vars

-----------------------------------------------------------------------------
(* Broadcasts of arbitrary messages over sockets that may refuse them *)

NextBroadcast ==
    \/ \E service \in Services :
         AddService(service, getRoutines(service), Fetched(SampleBridge))
    \/ \E client \in Clients : \E bag \in WellFormedBags("philips-hue-state") :
         DispatchCommand(client, "philips-hue-state", bag)
    \/ \E command \in SubscribableIds, parameters \in DistributeKeys :
         \E message \in Messages, failing \in SUBSET Clients :
           Distribute(command, parameters, message, failing)
    \/ \E client \in Clients : Disconnect(client)

SpecBroadcast == Init /\ [][NextBroadcast]_vars

-----------------------------------------------------------------------------
(* Registration of services and the runs of their routines *)

NextRoutines ==
    \/ AddService("Philips Hue", HueRoutines, Fetched(SampleBridge))
    \/ \E routines \in RoutineLists("Sensor") :
         AddService("Sensor", routines, Fetched(SampleBridge))
    \/ \E routine \in BagToSet(timers) : ExecuteRoutine(routine)
    \/ \E routine \in BagToSet(running), outcome \in {"ok", "throw"} :
         CallbackSettled(routine, outcome)
    \/ \E routine \in BagToSet(running) :
         \E answer \in {Fetched(SampleBridge), FetchFailed("lights")} :
           FetchSettled(routine, answer, {})
    \/ ConnectionChange

SpecRoutines == Init /\ [][NextRoutines]_vars

\* Every routine a timer can be set for.
AllRoutines ==
    { HueRoutines[i] : i \in 1..Len(HueRoutines) } \cup
    { Routine("Sensor", i, interval, "poll") :
        i \in 1..MaxRoutines, interval \in { n \in IntervalSamples : n > 0 } }

\* Node.js runs every timer that is due and every callback whose promise has
\* settled; a callback that is awaited is assumed to settle.
FairRoutines ==
    /\ \A routine \in AllRoutines :
         /\ WF_vars(ExecuteRoutine(routine))
         /\ WF_vars(\E outcome \in {"ok", "throw"} : CallbackSettled(routine, outcome))
         /\ WF_vars(\E answer \in {Fetched(SampleBridge), FetchFailed("lights")} :
                      FetchSettled(routine, answer, {}))

FairSpecRoutines == SpecRoutines /\ FairRoutines

-----------------------------------------------------------------------------
(* The synchronization cycles of the Philips Hue service *)

NextHue ==
    \/ \E answer \in Answers \cup {FetchFailed("connection")} :
         AddService("Philips Hue", HueRoutines, answer)
    \/ \E routine \in BagToSet(timers) : ExecuteRoutine(routine)
    \/ \E routine \in BagToSet(running), answer \in Answers :
         FetchSettled(routine, answer, {})
    \/ ConnectionChange

SpecHue == Init /\ [][NextHue]_vars

-----------------------------------------------------------------------------
(* Commands on the Interface over a snapshot that does not change *)

\* The Kitchen holds every light, the Hall the last one.
InterfaceGroups ==
    (1 :> Group("Kitchen", [i \in 1..MaxLights |-> i])) @@ (2 :> Group("Hall", <<MaxLights>>))

LightRed == Light(TRUE, 50, <<255, 0, 0>>)
LightBlue == Light(TRUE, 25, <<0, 0, 254>>)

\* Any of the lights may be unreachable, and so absent from the snapshot.
InterfaceLights ==
    UNION { [ids -> {LightOff, LightRed, LightBlue, LightDark}] :
              ids \in SUBSET (1..MaxLights) }

InterfaceScenes ==
    { <<>>,
      <<Scene("s1", 1, "Relax"), Scene("s2", 2, "Party")>>,
      <<Scene("s2", 2, "Relax"), Scene("s3", 1, "Party"), Scene("s4", 1, "Party")>> }

InterfaceSnapshots ==
    { Bridge(InterfaceGroups, lights, scenes) :
        lights \in InterfaceLights, scenes \in InterfaceScenes }

GroupArguments == {"Kitchen", "Hall", "Attic"}

NoFields == [key \in {} |-> 0]

Updates ==
    {NoFields} \cup
    { [on |-> on] : on \in BOOLEAN } \cup
    { [brightness |-> brightness] : brightness \in {-1, 0, 50, 100, 101} } \cup
    { [colour |-> <<255, 0, 0>>] } \cup
    { [scene |-> scene] : scene \in {"Relax", "Party", "Dusk"} } \cup
    { [on |-> TRUE, brightness |-> 50], [brightness |-> 101, scene |-> "Relax"] }

\* The Philips Hue service has been added, its first synchronization having
\* fetched any of the given snapshots.
Serving(snapshots) ==
    /\ commands = Registered({"Philips Hue"})
    /\ services = {"Philips Hue"}
    /\ subscriptions = <<>>
    /\ observers = [c \in Clients |-> FALSE]
    /\ closed = {}
    /\ pending = EmptyBag
    /\ notified = {}
    /\ joined = {}
    /\ lastOp = Op("addService", "", "Philips Hue", <<>>, <<>>, "ok", "", FALSE, FALSE,
                   NoSends)
    /\ wire = NoWire
    /\ timers = SetToBag({ HueRoutines[i] : i \in 1..Len(HueRoutines) })
    /\ running = EmptyBag
    /\ lastRun = NoRun
    /\ \E b \in snapshots :
         /\ bridge = b
         /\ lastSync = Sync("ok", <<>>, Fetched(b), {}, <<>>)
    /\ connected = TRUE
    /\ fetching = Fetching(1, <<>>, "")
    /\ origin = Whole(1)
    /\ lastHue = NoAccess
    /\ given = <<>>
    /\ Constructed

InitInterface == Serving(InterfaceSnapshots)

NextInterface ==
    \/ \E group \in GroupArguments : ComposeState(group)
    \/ \E group \in GroupArguments, patch \in Updates, accepted \in BOOLEAN :
         Update(group, patch, accepted)

SpecInterface == InitInterface /\ [][NextInterface]_vars

-----------------------------------------------------------------------------
(* Commands on the Interface while a synchronization fetches the snapshot *)

AtomicParts ==
    [groups |-> {(1 :> Group("Kitchen", <<1>>))},
     lights |-> {(1 :> LightOff), (1 :> LightOn)},
     scenes |-> {<<Scene("s1", 1, "Relax")>>}]

AtomicSnapshots ==
    { Bridge(groups, lights, scenes) :
        groups \in AtomicParts.groups, lights \in AtomicParts.lights,
        scenes \in AtomicParts.scenes }

InitAtomic == Serving(AtomicSnapshots)

NextAtomic ==
    \/ \E routine \in BagToSet(timers) : ExecuteRoutine(routine)
    \/ \E which \in DOMAIN AtomicParts : \E part \in AtomicParts[which] :
         PartFetched(which, part)
    \/ \E which \in DOMAIN AtomicParts : PartFailed(which)
    \/ \E routine \in BagToSet(running) : UpdateBridgeSettled(routine, {})
    \/ ComposeState("Kitchen")
    \/ \E accepted \in BOOLEAN : Update("Kitchen", [on |-> TRUE], accepted)

SpecAtomic == InitAtomic /\ [][NextAtomic]_vars

-----------------------------------------------------------------------------
(* State queries, their subscriptions and the broadcasts of the cycles *)

\* The Kitchen is group 1 or, deleted and set up anew, group 2; light 2 is on.
QuerySnapshots ==
    { Bridge((id :> Group("Kitchen", MemberLights(id))), (1 :> first) @@ (2 :> LightOn), <<>>) :
        id \in GroupIds, first \in {LightOff, LightOn, LightDark} }

InitQueries == Serving(QuerySnapshots)

NextQueries ==
    \/ \E client \in Clients : QueryState(client, "Kitchen")
    \/ \E routine \in BagToSet(timers) : ExecuteRoutine(routine)
    \/ \E routine \in BagToSet(running), failing \in {{}, {"B"}} :
         \E answer \in { Fetched(b) : b \in QuerySnapshots } \cup {FetchFailed("lights")} :
           FetchSettled(routine, answer, failing)

SpecQueries == InitQueries /\ [][NextQueries]_vars

-----------------------------------------------------------------------------
(* Vocabulary of the claims *)

\* Two subscriptions carry the same key: same command, structurally equal
\* parameter lists (same length, same type and value at every position).
SameKey(s, t) == s.command = t.command /\ s.parameters = t.parameters

Subscribed(c, command, parameters) ==
    \E i \in 1..Len(subscriptions) :
        /\ subscriptions[i].command = command
        /\ subscriptions[i].parameters = parameters
        /\ c \in subscriptions[i].clients

InNoSubscription(c) == \A i \in 1..Len(subscriptions) : c \notin subscriptions[i].clients

\* The descriptor a dispatch recorded in `op` was validated against.
DescriptorOf(op) == commands[op.command]

IsPresent(op, i) == DescriptorOf(op).parameters[i].name \in DOMAIN op.bag

ValueOf(op, i) == op.bag[DescriptorOf(op).parameters[i].name]

IsWellTyped(op, i) ==
    IsPresent(op, i) /\ ValueOf(op, i).type = DescriptorOf(op).parameters[i].type

\* The dispatch recorded in `op` reached the handler.
Invoked(op) == op.result \in {"pending", "ok", "throw"}

IsDispatchOf(op) == op.op = "dispatch" /\ op.command \in DOMAIN commands

-----------------------------------------------------------------------------
(* C1 *)

\* C1: in every reachable state the table holds at most one subscription per
\* (command, parameter list) key, whatever the interleaving of the dispatches.
C1_OneSubscriptionPerKey ==
    \A i, j \in 1..Len(subscriptions) :
        SameKey(subscriptions[i], subscriptions[j]) => i = j

\* Two clients were suspended in the handler of the same command with equal
\* parameters at the same time, and both have since been subscribed.
C1_Witness ==
    /\ lastOp.op = "resume" /\ lastOp.result = "ok" /\ lastOp.raced
    /\ \A c \in Clients : Subscribed(c, lastOp.command, lastOp.args)

-----------------------------------------------------------------------------
(* C2 *)

\* C2: when two different connected clients have both completed a dispatch of
\* a subscribable command with equal parameters, one distribute for that key
\* calls send exactly once for each of them.
C2_ExactlyOnceEach ==
    lastOp.op = "distribute" =>
        \A a, b \in Clients \ closed :
            ( /\ a # b
              /\ <<a, lastOp.command, lastOp.args>> \in joined
              /\ <<b, lastOp.command, lastOp.args>> \in joined )
            => lastOp.sends[a] = 1 /\ lastOp.sends[b] = 1

C2_Witness ==
    /\ lastOp.op = "distribute"
    /\ \A c \in Clients : <<c, lastOp.command, lastOp.args>> \in joined
    /\ closed = {}
    /\ \A c \in Clients : lastOp.sends[c] = 1

-----------------------------------------------------------------------------
(* C3 *)

\* C3: a client whose transport has disconnected is a member of no
\* subscription in any state reached afterwards.
C3_ClosedClientsUnsubscribed == \A c \in closed : InNoSubscription(c)

-----------------------------------------------------------------------------
(* C4 *)

\* C4: once onClientDisconnected has run for a client, no later distribute
\* sends to it, and every other client subscribed to the key is still sent to.
C4_NoSendAfterDisconnect ==
    lastOp.op = "distribute" =>
        /\ \A c \in notified : lastOp.sends[c] = 0
        /\ \A c \in Clients \ notified :
             Subscribed(c, lastOp.command, lastOp.args) => lastOp.sends[c] >= 1

-----------------------------------------------------------------------------
(* C5 *)

\* C5: a dispatch whose raw bag lacks a declared parameter that the descriptor
\* does not mark optional, all earlier declared parameters being present and
\* well typed, fails with MissingParameter naming it and never reaches the
\* handler, whatever other keys the bag holds.
C5_MissingRequiredFails ==
    IsDispatchOf(lastOp) =>
        \A i \in 1..Len(DescriptorOf(lastOp).parameters) :
            ( /\ ~IsPresent(lastOp, i)
              /\ ~DescriptorOf(lastOp).parameters[i].optional
              /\ \A j \in 1..(i - 1) : IsWellTyped(lastOp, j) )
            => /\ lastOp.result = "missing"
               /\ lastOp.name = DescriptorOf(lastOp).parameters[i].name
               /\ ~Invoked(lastOp)

-----------------------------------------------------------------------------
(* C6 *)

\* C6: a dispatch whose raw bag lacks a declared parameter that the descriptor
\* marks optional does not fail: the handler is called with exactly the
\* arguments collected before that parameter.
C6_MissingOptionalStops ==
    IsDispatchOf(lastOp) =>
        \A i \in 1..Len(DescriptorOf(lastOp).parameters) :
            ( /\ ~IsPresent(lastOp, i)
              /\ DescriptorOf(lastOp).parameters[i].optional
              /\ \A j \in 1..(i - 1) : IsWellTyped(lastOp, j) )
            => /\ Invoked(lastOp)
               /\ lastOp.args = [j \in 1..(i - 1) |-> ValueOf(lastOp, j)]

-----------------------------------------------------------------------------
(* C7 *)

\* C7, as stated: whenever a present parameter is ill typed, the dispatch
\* fails with TypeMismatch for the first such parameter in declaration order.
C7_MismatchAlwaysReported ==
    IsDispatchOf(lastOp) =>
        \A i \in 1..Len(DescriptorOf(lastOp).parameters) :
            ( /\ IsPresent(lastOp, i) /\ ~IsWellTyped(lastOp, i)
              /\ \A j \in 1..(i - 1) : ~IsPresent(lastOp, j) \/ IsWellTyped(lastOp, j) )
            => /\ lastOp.result = "mismatch"
               /\ lastOp.name = DescriptorOf(lastOp).parameters[i].name

\* C7, amended: when a present parameter is ill typed and every parameter
\* declared before it is present and well typed, the dispatch fails with
\* TypeMismatch for that parameter, the handler is not called and the
\* subscription table is unchanged; when all declared parameters are present
\* and well typed, the handler gets them positionally in declaration order.
C7_MismatchAfterPresentPrefix ==
    [][ LET op == lastOp' IN
        (op.op = "dispatch" /\ op.command \in DOMAIN commands) =>
          /\ \A i \in 1..Len(commands[op.command].parameters) :
               ( /\ IsPresent(op, i) /\ ~IsWellTyped(op, i)
                 /\ \A j \in 1..(i - 1) : IsWellTyped(op, j) )
               => /\ op.result = "mismatch"
                  /\ op.name = commands[op.command].parameters[i].name
                  /\ ~Invoked(op)
                  /\ pending' = pending
                  /\ subscriptions' = subscriptions
                  /\ observers' = observers
          /\ (\A i \in 1..Len(commands[op.command].parameters) : IsWellTyped(op, i))
               => /\ Invoked(op)
                  /\ op.args = [i \in 1..Len(commands[op.command].parameters) |->
                                   ValueOf(op, i)]
      ]_vars

\* A dispatch was refused because its second parameter, after a well-typed
\* first one, had the wrong type, while the table held a subscription.
C7_Witness ==
    /\ IsDispatchOf(lastOp)
    /\ lastOp.result = "mismatch"
    /\ Len(DescriptorOf(lastOp).parameters) = 2
    /\ lastOp.name = DescriptorOf(lastOp).parameters[2].name
    /\ IsWellTyped(lastOp, 1)
    /\ subscriptions # <<>>

-----------------------------------------------------------------------------
(* C8 *)

\* C8, as stated: a dispatch of any command without a descriptor yields null.
C8_UnknownYieldsNull ==
    (lastOp.op = "dispatch" /\ lastOp.command \notin DOMAIN commands)
        => lastOp.result = "null"

\* C8, amended: a dispatch of a command without a descriptor calls no handler,
\* does not throw and leaves the registry and the subscription table as they
\* were; it yields null for every such identifier except "service-commands",
\* which is answered with the listing of a service's commands.
C8_UnknownIsSoftMiss ==
    [][ LET op == lastOp' IN
        (op.op = "dispatch" /\ op.command \notin DOMAIN commands) =>
          /\ op.result = IF op.command = "service-commands" THEN "listing" ELSE "null"
          /\ ~Invoked(op)
          /\ commands' = commands
          /\ subscriptions' = subscriptions
          /\ pending' = pending
          /\ observers' = observers
      ]_vars

\* A command of a service that is not registered was dispatched and yielded
\* null, while the table held a subscription.
C8_Witness ==
    /\ lastOp.op = "dispatch"
    /\ lastOp.command = "sensor-watch"
    /\ lastOp.command \notin DOMAIN commands
    /\ lastOp.result = "null"
    /\ subscriptions # <<>>

-----------------------------------------------------------------------------
(* C9 *)

\* C9: a dispatch changes the subscription table, or the client's disconnect
\* observers, only when the command is subscribable and the handler succeeded:
\* a throwing handler and a non-subscribable command leave both as they were.
C9_SubscribeOnlyOnSuccess ==
    [][ LET op == lastOp' IN
        op.op \in {"dispatch", "resume"} =>
          /\ (subscriptions' # subscriptions \/ observers' # observers)
               => (op.result = "ok" /\ op.command \in SubscribableIds)
          /\ op.result = "throw"
               => (subscriptions' = subscriptions /\ observers' = observers)
          /\ op.command \in {"philips-hue-power", "philips-hue-brightness",
                             "philips-hue-colour", "philips-hue-scene"}
               => subscriptions' = subscriptions
      ]_vars

\* The handler of a subscribable command threw after having been suspended.
C9_Witness ==
    /\ lastOp.op = "resume"
    /\ lastOp.result = "throw"
    /\ lastOp.command \in SubscribableIds
    /\ ~Subscribed(lastOp.client, lastOp.command, lastOp.args)

-----------------------------------------------------------------------------
(* C10 *)

\* C10: distribute sends to a client if and only if the client is in the
\* subscription whose command is the given one and whose parameter list is
\* structurally equal to the given key.
C10_DeliversIffSubscribed ==
    lastOp.op = "distribute" =>
        \A c \in Clients :
            lastOp.sends[c] >= 1 <=> Subscribed(c, lastOp.command, lastOp.args)

-----------------------------------------------------------------------------
(* C11 *)

\* C11: every message that distribute(c, k, m) sends to a client carries a
\* field `command` equal to c, whatever the message object m, an m that has a
\* `command` field of its own included.
C11_CommandIsSubscribedId ==
    (lastOp.op = "distribute" /\ wire.attempted # {})
        => wire.object["command"] = S(lastOp.command)

-----------------------------------------------------------------------------
(* C12 *)

\* C12: in distribute, a send that fails for one subscribed client neither
\* keeps the send to any other subscribed client from being attempted nor
\* makes the delivery to the others fail: every client of a matching
\* subscription is sent to, and every one of them whose own socket accepts the
\* message receives it, in whatever order the clients are iterated.
C12_FailedSendIsIsolated ==
    [][ lastOp'.op = "distribute" =>
          LET subscribed == { c \in Clients :
                                \E i \in Matching(subscriptions, lastOp'.command,
                                                  lastOp'.args) :
                                  c \in subscriptions[i].clients } IN
          /\ wire'.attempted = subscribed
          /\ wire'.delivered = subscribed \ wire'.failing
      ]_vars

\* A and B are both subscribed to the key of a distribute; the send to A
\* failed and B received the message.
C12_Witness ==
    /\ lastOp.op = "distribute"
    /\ \A c \in Clients : Subscribed(c, lastOp.command, lastOp.args)
    /\ wire.attempted = Clients
    /\ wire.failing = {"A"}
    /\ wire.rejected
    /\ wire.delivered = {"B"}

-----------------------------------------------------------------------------
(* C13 *)

\* C13: an action that throws is caught and never cancels future scheduling.
\* After every completed run of a scheduled routine, successful or failed,
\* exactly one next run is scheduled and none is in flight; so a routine that
\* has been scheduled, and whose every run terminates, completes a run again
\* and again for ever.
C13_AlwaysRescheduled ==
    /\ [](lastRun.op = "settled" =>
            /\ CopiesIn(lastRun.routine, timers) = 1
            /\ CopiesIn(lastRun.routine, running) = 0)
    /\ \A routine \in AllRoutines :
         [](BagIn(routine, timers) =>
              []<>(lastRun.op = "settled" /\ lastRun.routine = routine))

\* The action of a routine threw, and the routine is scheduled again.
C13_Witness ==
    /\ lastRun.op = "settled"
    /\ lastRun.result = "throw"
    /\ lastRun.routine.callbackFn = "poll"
    /\ BagIn(lastRun.routine, timers)

-----------------------------------------------------------------------------
(* C14 *)

\* C14: registering a service one of whose routines has an interval <= 0 or
\* > 86400 fails outright: no routine with such an interval is ever scheduled
\* or run, and once addService has thrown no routine of that service is left
\* scheduled or running.
C14_NothingLeftScheduled ==
    /\ \A routine \in BagToSet(timers) \cup BagToSet(running) :
         ~IntervalOutOfBounds(routine)
    /\ (lastOp.op = "addService" /\ lastOp.result = "throw") =>
         \A routine \in BagToSet(timers) \cup BagToSet(running) :
           routine.service # lastOp.command

-----------------------------------------------------------------------------
(* Vocabulary of the claims about synchronize *)

\* The step is addService of the Philips Hue service reaching the first
\* synchronize, from the default snapshot.
FirstSynchronize ==
    /\ "Philips Hue" \notin services
    /\ lastOp'.op = "addService"
    /\ lastOp'.command = "Philips Hue"
    /\ lastOp'.result # "skipped"

\* The step ends the synchronize of a scheduled run of updateState.
CycleSynchronize ==
    /\ "Philips Hue" \in services
    /\ connected' = connected
    /\ lastOp'.op = "executeRoutine"
    /\ lastRun'.op = "settled"
    /\ lastRun'.routine.callbackFn = "updateState"

\* The step ends a call of synchronize.
SynchronizeEnds == FirstSynchronize \/ CycleSynchronize

\* The call of synchronize that ends in this step found the connection up and
\* had all three fetches succeed.
BackendAnswered == lastSync'.answer.failed = ""

\* The ids that carry one and the same name in both snapshots.
SamePairing(old, new) ==
    { id \in Retained(old, new) : old.groups[id].name = new.groups[id].name }

SameMap(f, g) == DOMAIN f = DOMAIN g /\ \A k \in DOMAIN f : f[k] = g[k]

-----------------------------------------------------------------------------
(* C15 *)

\* C15: synchronize returns exactly the groups that are in both the cached
\* snapshot S and the fetched snapshot S' and whose composed state differs
\* between the two, each mapped to its composed state in S'; a group that is
\* only in S' or only in S is never in the result, and the first synchronize,
\* from the empty snapshot, returns an empty map.
C15_ReturnsExactlyTheChangedGroups ==
    [][ (SynchronizeEnds /\ BackendAnswered) =>
          LET new == lastSync'.answer.bridge
              changed == { id \in SamePairing(bridge, new) :
                             composeState(bridge.groups[id].name, bridge)
                               # composeState(new.groups[id].name, new) } IN
          /\ lastSync'.result = "ok"
          /\ SameMap(lastSync'.updates,
                     [name \in { new.groups[id].name : id \in changed } |->
                        composeState(name, new)])
          /\ FirstSynchronize => DOMAIN lastSync'.updates = {}
      ]_vars

-----------------------------------------------------------------------------
(* C16 *)

\* C16: whenever the connection is up and all three fetches of a cycle
\* succeed, synchronize completes without failure and installs the fetched
\* snapshot as the cached one, whether or not any composed state changed and
\* however the two snapshots differ (groups added, removed or renamed).
C16_InstallsWheneverFetched ==
    [][ (SynchronizeEnds /\ BackendAnswered) =>
          /\ lastSync'.result = "ok"
          /\ bridge' = lastSync'.answer.bridge
      ]_vars

-----------------------------------------------------------------------------
(* C17 *)

\* C17: a synchronization that finds the connection down, or in which one of
\* the three fetches fails, leaves the cached snapshot exactly as it was,
\* reports no diffs and causes no broadcast in that cycle.
C17_FailedFetchKeepsSnapshot ==
    [][ (SynchronizeEnds /\ ~BackendAnswered) =>
          /\ lastSync'.result \in {"disconnected", "fetch-failed"}
          /\ bridge' = bridge
          /\ DOMAIN lastSync'.updates = {}
          /\ lastSync'.broadcasts = {}
      ]_vars

\* A fetch of a scheduled cycle failed while the cache held two groups.
C17_Witness ==
    /\ lastRun.op = "settled"
    /\ lastRun.routine.callbackFn = "updateState"
    /\ lastSync.result = "fetch-failed"
    /\ lastSync.answer.failed = "scenes"
    /\ DOMAIN bridge.groups = GroupIds
    /\ connected

-----------------------------------------------------------------------------
(* C18 *)

\* C18: synchronization heals itself: after any number of failed ticks, the
\* first later tick at which the connection is up and all three fetches
\* succeed completes and installs the fetched snapshot.
C18_HealsAfterFailure ==
    [][ (CycleSynchronize /\ BackendAnswered /\ lastSync.result \notin {"ok", "none"}) =>
          /\ lastRun'.result = "ok"
          /\ bridge' = lastSync'.answer.bridge
      ]_vars

-----------------------------------------------------------------------------
(* C19 *)

\* C19: diffing is idempotent: when synchronize is called twice in a row and
\* the bridge answers the second call exactly as it answered the first, the
\* second call yields an empty map.
C19_SecondDiffIsEmpty ==
    [][ (SynchronizeEnds /\ BackendAnswered /\ lastSync.answer = lastSync'.answer) =>
          /\ lastSync'.result = "ok"
          /\ DOMAIN lastSync'.updates = {}
      ]_vars

-----------------------------------------------------------------------------
(* C20 *)

\* C20: group identity is the pairing of name and id: synchronize emits an
\* entry for a name only when one and the same id carries that name in both
\* the cached and the fetched snapshot, and a state of one id is never
\* compared with a state of another id.
C20_EntriesKeepTheirId ==
    [][ (SynchronizeEnds /\ BackendAnswered) =>
          LET new == lastSync'.answer.bridge IN
          /\ \A name \in DOMAIN lastSync'.updates :
               \E id \in SamePairing(bridge, new) : new.groups[id].name = name
          /\ \A id \in Retained(bridge, new) :
               KnownGroup(bridge.groups[id].name, new) =>
                 findGroupId(bridge.groups[id].name, new) = id
      ]_vars

-----------------------------------------------------------------------------
(* Vocabulary of the claims on the Interface *)

\* The step is a call of the given method of the Interface.
Accesses(op) == lastHue' # lastHue /\ lastHue'.op = op

\* The positions of a group's list of lights whose light the snapshot holds,
\* and those of them whose light is on.
PresentMembers(g, b) == { k \in DOMAIN g.lights : g.lights[k] \in DOMAIN b.lights }
MembersOn(g, b) == { k \in PresentMembers(g, b) : b.lights[g.lights[k]].on }

RECURSIVE Total(_, _)
Total(f, positions) ==
    IF positions = {} THEN 0
    ELSE LET k == CHOOSE k \in positions : TRUE IN f[k] + Total(f, positions \ {k})

\* The floor of the mean of f over the positions, 0 over none; not a number
\* as soon as one of the values is not.
FloorOfMean(f, positions) ==
    IF positions = {} THEN 0
    ELSE IF \E k \in positions : f[k] = NaN THEN NaN
    ELSE Total(f, positions) \div Cardinality(positions)

\* The names of the scenes the group of the given id owns, in their order.
ScenesOf(id, b) ==
    LET owned == SelectSeq(b.scenes, LAMBDA scene : scene.group = id) IN
    [i \in 1..Len(owned) |-> owned[i].name]

-----------------------------------------------------------------------------
(* C21 *)

\* C21: for every snapshot and every group in it, composeState returns
\* on = the disjunction of `on` over the member lights the snapshot holds,
\* brightness = the floor of the mean brightness over the member lights that
\* are on (0 if none is), colour = channel by channel the floor of the mean
\* over the member lights that are on ([0, 0, 0] if none is), and scenes = the
\* scenes whose owning group is the group, no others; member lights absent
\* from the snapshot contribute nothing.
C21_ComposesTheMembersThatAreOn ==
    [][ (Accesses("composeState") /\ KnownGroup(lastHue'.group, bridge)) =>
          LET id == CHOOSE id \in DOMAIN bridge.groups :
                        bridge.groups[id].name = lastHue'.group
              g == bridge.groups[id]
              lit == MembersOn(g, bridge)
              state == lastHue'.state IN
          /\ lastHue'.result = "ok"
          /\ state.on = (\E k \in PresentMembers(g, bridge) : bridge.lights[g.lights[k]].on)
          /\ state.brightness =
                FloorOfMean([k \in lit |-> bridge.lights[g.lights[k]].brightness], lit)
          /\ \A c \in 1..3 :
                state.colour[c] =
                  FloorOfMean([k \in lit |-> bridge.lights[g.lights[k]].colour[c]], lit)
          /\ [i \in 1..Len(state.scenes) |-> state.scenes[i].name] = ScenesOf(id, bridge)
    ]_vars

\* The Kitchen with light 1 on at 50 in red, light 2 off and light 3 out of
\* reach composes to on, 50, red.
C21_Witness ==
    /\ lastHue.op = "composeState"
    /\ lastHue.group = "Kitchen"
    /\ bridge.lights = (1 :> LightRed) @@ (2 :> LightOff)
    /\ lastHue.state.on
    /\ lastHue.state.brightness = 50
    /\ lastHue.state.colour = <<255, 0, 0>>

-----------------------------------------------------------------------------
(* C22 *)

\* The step is update(group, patch) for a group the cached snapshot knows and
\* an Update of exactly the given fields.
UpdatesFields(fields) ==
    /\ Accesses("update")
    /\ DOMAIN lastHue'.patch = fields
    /\ KnownGroup(lastHue'.group, bridge)

-----------------------------------------------------------------------------
(* C23 *)

\* The ids of the scenes of the snapshot that the group owns under the name.
ScenesNamed(name, id, b) ==
    { b.scenes[i].id : i \in { j \in 1..Len(b.scenes) :
                                  b.scenes[j].group = id /\ b.scenes[j].name = name } }

\* C23: update(group, {scene: s}) resolves s among the scenes of the cached
\* snapshot that the target group owns: when the group owns no scene named s,
\* whoever else owns one, or when no group carries the name, update fails
\* with NotFound and calls the bridge not at all; otherwise the one call it
\* makes names a scene of the group.
C23_SceneOfTheGroupOnly ==
    [][ (Accesses("update") /\ DOMAIN lastHue'.patch = {"scene"}) =>
          IF ~KnownGroup(lastHue'.group, bridge)
          THEN lastHue'.result = "not-found" /\ Len(lastHue'.sets) = 0
          ELSE LET id == CHOOSE id \in DOMAIN bridge.groups :
                             bridge.groups[id].name = lastHue'.group
                   owned == ScenesNamed(lastHue'.patch.scene, id, bridge) IN
               IF owned = {}
               THEN lastHue'.result = "not-found" /\ Len(lastHue'.sets) = 0
               ELSE /\ Len(lastHue'.sets) = 1
                    /\ lastHue'.sets[1].state.scene \in owned
    ]_vars

\* The Kitchen was asked for the scene "Party" while only the Hall owns a
\* scene of that name.
C23_Witness ==
    /\ lastHue.op = "update"
    /\ lastHue.group = "Kitchen"
    /\ lastHue.patch = [scene |-> "Party"]
    /\ \E i \in 1..Len(bridge.scenes) : bridge.scenes[i].name = "Party"
    /\ ScenesNamed("Party", 1, bridge) = {}
    /\ lastHue.result = "not-found"
    /\ lastHue.sets = <<>>

-----------------------------------------------------------------------------
(* C24 *)

\* The one call of the bridge addresses the group of the name and carries the
\* fields of the Update, no others.
CallsOnceAsGiven ==
    /\ Len(lastHue'.sets) = 1
    /\ lastHue'.sets[1].id \in DOMAIN bridge.groups
    /\ bridge.groups[lastHue'.sets[1].id].name = lastHue'.group
    /\ \A field \in {"on", "scene"} :
         field \in DOMAIN lastHue'.sets[1].state <=> field \in DOMAIN lastHue'.patch
    /\ "bri" \in DOMAIN lastHue'.sets[1].state <=> "brightness" \in DOMAIN lastHue'.patch
    /\ "xy" \in DOMAIN lastHue'.sets[1].state <=> "colour" \in DOMAIN lastHue'.patch
    /\ DOMAIN lastHue'.sets[1].state \subseteq {"on", "bri", "xy", "scene"}

\* C24 as stated: every successful update calls the bridge exactly once, for
\* the id of the named group in the cached snapshot and with the fields of
\* the Update, no others; every failing update calls it not at all.
C24_FailingUpdateNeverCalls ==
    [][ Accesses("update") =>
          IF lastHue'.result = "ok" THEN CallsOnceAsGiven ELSE Len(lastHue'.sets) = 0
    ]_vars

\* C24, amended: every successful update calls the bridge exactly once, for
\* the id of the named group in the cached snapshot and with the fields of
\* the Update, no others; an update that fails on the name of the group, the
\* brightness or the scene calls it not at all; an update that fails because
\* the bridge refused the call has made that one call.
C24_OnlyRefusedCallsFail ==
    [][ Accesses("update") =>
          /\ lastHue'.result \in {"ok", "not-found", "invalid-argument", "backend-unavailable"}
          /\ lastHue'.result \in {"ok", "backend-unavailable"} => CallsOnceAsGiven
          /\ lastHue'.result \in {"not-found", "invalid-argument"} => Len(lastHue'.sets) = 0
    ]_vars

\* The Kitchen was switched on at a brightness of 50 in one call.
C24_Witness ==
    /\ lastHue.op = "update"
    /\ lastHue.group = "Kitchen"
    /\ lastHue.patch = [on |-> TRUE, brightness |-> 50]
    /\ lastHue.result = "ok"
    /\ Len(lastHue.sets) = 1
    /\ lastHue.sets[1].id = 1
    /\ DOMAIN lastHue.sets[1].state = {"on", "bri"}

-----------------------------------------------------------------------------
(* C25 *)

\* C25: update never modifies the cached snapshot: composeState of the group
\* returns the same value right before and right after any update, successful
\* or failed, and update broadcasts nothing; the cached snapshot changes, and
\* with it what composeState returns, only when a synchronize ends well, which
\* installs what that synchronize fetched.
C25_UpdateLeavesTheCache ==
    [][ /\ Accesses("update") =>
              /\ bridge' = bridge
              /\ KnownGroup(lastHue'.group, bridge) =>
                    composeState(lastHue'.group, bridge') = composeState(lastHue'.group, bridge)
              /\ lastSync' = lastSync
              /\ wire' = wire
              /\ given' = given
        /\ bridge' # bridge =>
              /\ lastHue' = lastHue
              /\ lastRun' # lastRun
              /\ lastRun'.op = "settled"
              /\ lastRun'.routine.callbackFn = "updateState"
              /\ lastSync'.result = "ok"
              /\ bridge' = lastSync'.answer.bridge
    ]_vars

\* The bridge has accepted switching the Kitchen on, and the cached snapshot
\* still has it off.
C25_Witness ==
    /\ lastHue.op = "update"
    /\ lastHue.group = "Kitchen"
    /\ lastHue.patch = [on |-> TRUE]
    /\ lastHue.result = "ok"
    /\ ~composeState("Kitchen", bridge).on

-----------------------------------------------------------------------------
(* C26 *)

\* C26: a composeState or an update that runs while a synchronization has its
\* fetches in flight is not held back, and the groups, the lights and the
\* scenes of the snapshot it reads were all fetched in one and the same cycle,
\* the one whose snapshot was installed last.
C26_ReadsOneCompletedCycle ==
    /\ [](Synchronizing =>
            /\ ENABLED ComposeState("Kitchen")
            /\ ENABLED Update("Kitchen", [on |-> TRUE], TRUE))
    /\ [][ (Accesses("composeState") \/ Accesses("update")) =>
              /\ lastHue'.from.groups = lastHue'.from.lights
              /\ lastHue'.from.lights = lastHue'.from.scenes
              /\ lastHue'.from = origin
       ]_vars

\* The state of the Kitchen was composed while the lights of the cycle in
\* flight had been fetched, and differ from the cached ones, and the groups
\* had not.
C26_Witness ==
    /\ Synchronizing
    /\ lastHue.op = "composeState"
    /\ lastHue.during
    /\ DOMAIN fetching.parts = {"lights"}
    /\ fetching.parts.lights # bridge.lights
    /\ lastHue.state = composeState("Kitchen", bridge)

-----------------------------------------------------------------------------
(* Vocabulary of the claims on the scheduled cycles *)

\* The step ends a scheduled run of updateState that had been suspended in
\* synchronize.
CycleEnds ==
    /\ lastRun.op = "fired"
    /\ lastRun'.op = "settled"
    /\ lastRun'.routine.callbackFn = "updateState"

\* The composed state of the group is not the same in the snapshot cached
\* before the step and in the one cached after it.
ComposedStateChanged(group) ==
    /\ KnownGroup(group, bridge)
    /\ KnownGroup(group, bridge')
    /\ composeState(group, bridge') # composeState(group, bridge)

\* How many times the client was sent a broadcast for the group in the cycle
\* that ends in this step.
BroadcastsTo(client, group) ==
    IF group \in DOMAIN lastSync'.sent THEN lastSync'.sent[group].sends[client] ELSE 0

-----------------------------------------------------------------------------
(* C27 *)

\* C27: in each scheduled cycle, every client subscribed to the state command
\* for a group is sent exactly one broadcast {command, group, state} when the
\* composed state of the group changed in that cycle, with the state composed
\* from the newly cached snapshot, and no broadcast for the group in a cycle
\* where its composed state did not change or the synchronization failed.
C27_OneBroadcastPerChange ==
    [][ CycleEnds =>
          \A client \in Clients, group \in GroupNames :
            Subscribed(client, "philips-hue-state", <<S(group)>>) =>
              IF lastSync'.result = "ok" /\ ComposedStateChanged(group)
              THEN /\ BroadcastsTo(client, group) = 1
                   /\ lastSync'.sent[group].object =
                        [command |-> S("philips-hue-state"), group |-> S(group),
                         state |-> composeState(group, bridge')]
              ELSE BroadcastsTo(client, group) = 0
    ]_vars

-----------------------------------------------------------------------------
(* C28 *)

\* C28: no change of state is lost between a query and its subscription: once
\* no cycle is in flight, the state a subscribed client was last given for a
\* group, as the result of its query or in a later broadcast, is the state
\* composed for the group from the cached snapshot.
C28_LastGivenIsCached ==
    \A p \in DOMAIN given :
        ( /\ running = EmptyBag
          /\ Subscribed(p[1], "philips-hue-state", <<S(p[2])>>)
          /\ KnownGroup(p[2], bridge) )
        => given[p] = composeState(p[2], bridge)

-----------------------------------------------------------------------------
(* C29 *)

\* C29: any failure raised while the scheduled action of the Philips Hue
\* service runs, by synchronize or by a send that fails inside distribute, is
\* caught and reported by executeRoutine: the run ends in its error path.
C29_EveryFailureIsCaught ==
    [][ ( /\ CycleEnds
          /\ \/ lastSync'.result # "ok"
             \/ \E group \in DOMAIN lastSync'.sent : lastSync'.sent[group].rejected )
        => lastRun'.result = "throw"
    ]_vars

-----------------------------------------------------------------------------
(* C30 *)

\* C30: runs of one scheduled routine never overlap.  At any time a routine
\* has at most one run in flight or one timer pending, never both; a timer is
\* set for it only by its registration and by the completion of its run; and
\* registration starts no run: the first run waits for the first timer.
C30_RunsNeverOverlap ==
    /\ [](\A routine \in AllRoutines :
            CopiesIn(routine, timers) + CopiesIn(routine, running) <= 1)
    /\ [][ \A routine \in AllRoutines :
              CopiesIn(routine, timers') > CopiesIn(routine, timers) =>
                \/ /\ lastOp'.op = "addService"
                   /\ lastOp'.command = routine.service
                   /\ routine.service \notin services
                   /\ running' = running
                   /\ lastRun' = lastRun
                \/ /\ lastRun'.op = "settled"
                   /\ lastRun'.routine = routine
                   /\ lastRun' # lastRun
                   /\ CopiesIn(routine, running') = 0
       ]_vars

\* A run of a routine of the Sensor service is in flight and no timer is
\* pending for the routine.
C30_Witness ==
    /\ lastRun.op = "fired"
    /\ lastRun.routine.callbackFn = "poll"
    /\ CopiesIn(lastRun.routine, running) = 1
    /\ CopiesIn(lastRun.routine, timers) = 0

-----------------------------------------------------------------------------
(* C31 *)

\* C31: onClientDisconnected changes only the sets of members: the list of
\* subscriptions, with the command and the parameters of each, is the same
\* before and after, and so are the other clients of each; and no step ever
\* adds a subscription for a command and parameters that the list holds
\* already, emptied or not: a later dispatch joins the one there is.
C31_DisconnectOnlyLeaves ==
    [][ /\ (lastOp'.op = "disconnect" /\ lastOp' # lastOp) =>
              /\ Len(subscriptions') = Len(subscriptions)
              /\ \A i \in 1..Len(subscriptions) :
                    /\ SameKey(subscriptions'[i], subscriptions[i])
                    /\ subscriptions'[i].clients \cup {lastOp'.client} =
                          subscriptions[i].clients \cup {lastOp'.client}
                    /\ lastOp'.client \notin subscriptions'[i].clients
        /\ Len(subscriptions') # Len(subscriptions) =>
              /\ Len(subscriptions') = Len(subscriptions) + 1
              /\ \A i \in 1..Len(subscriptions) :
                    /\ subscriptions'[i] = subscriptions[i]
                    /\ ~SameKey(subscriptions[i], subscriptions'[Len(subscriptions')])
    ]_vars

\* A client has left the subscription it was the only member of, which is
\* still on the list, while the other client is connected.
C31_Witness ==
    /\ lastOp.op = "disconnect"
    /\ lastOp.client \in notified
    /\ closed # Clients
    /\ \E i \in 1..Len(subscriptions) : subscriptions[i].clients = {}

-----------------------------------------------------------------------------
(* Philips Hue: the colour of a light (colours.ts) *)

\* The doubles of getLightColour.  A finite double is kept to three decimal
\* places (v thousandths); the infinities and NaN are kept as what they are,
\* with the arithmetic IEEE 754 gives them.
Scale == 1000
Infinity == 1000000

Num(v) == [kind |-> "num", v |-> v]
PosInf == [kind |-> "inf", v |-> 1]
NegInf == [kind |-> "inf", v |-> -1]
NotANumber == [kind |-> "nan", v |-> 0]

Sign(v) == IF v < 0 THEN -1 ELSE 1
Inf(sign) == IF sign < 0 THEN NegInf ELSE PosInf

\* a + b
FAdd(a, b) ==
    CASE a.kind = "nan" \/ b.kind = "nan" -> NotANumber
      [] a.kind = "inf" /\ b.kind = "inf" -> IF a.v = b.v THEN a ELSE NotANumber
      [] a.kind = "inf" -> a
      [] b.kind = "inf" -> b
      [] OTHER -> Num(a.v + b.v)

\* a * b
FMul(a, b) ==
    CASE a.kind = "nan" \/ b.kind = "nan" -> NotANumber
      [] a.kind = "inf" /\ b.kind = "inf" -> Inf(a.v * b.v)
      [] a.kind = "inf" -> IF b.v = 0 THEN NotANumber ELSE Inf(a.v * Sign(b.v))
      [] b.kind = "inf" -> IF a.v = 0 THEN NotANumber ELSE Inf(b.v * Sign(a.v))
      [] OTHER -> Num((a.v * b.v) \div Scale)

\* a / b
FDiv(a, b) ==
    CASE a.kind = "nan" \/ b.kind = "nan" -> NotANumber
      [] a.kind = "inf" /\ b.kind = "inf" -> NotANumber
      [] a.kind = "inf" -> Inf(a.v * Sign(b.v))
      [] b.kind = "inf" -> Num(0)
      [] b.v = 0 -> IF a.v = 0 THEN NotANumber ELSE Inf(Sign(a.v))
      [] OTHER -> Num((a.v * Scale) \div b.v)

FNeg(a) == IF a.kind = "nan" THEN a ELSE [a EXCEPT !.v = -a.v]

\* a <= b (false when either is NaN)
FLeq(a, b) ==
    CASE a.kind = "nan" \/ b.kind = "nan" -> FALSE
      [] a.kind = "inf" -> a.v < 0 \/ a = b
      [] b.kind = "inf" -> b.v > 0
      [] OTHER -> a.v <= b.v

\* Math.max(a, b, c): NaN when any argument is NaN
FMax(a, b, c) ==
    IF "nan" \in {a.kind, b.kind, c.kind} THEN NotANumber
    ELSE CHOOSE m \in {a, b, c} : \A other \in {a, b, c} : FLeq(other, m)

\* The integer k-th root of n, for n >= 0, searched between low and high.
RECURSIVE Root(_, _, _, _)
Root(n, k, low, high) ==
    LET middle == (low + high + 1) \div 2
        power == IF k = 2 THEN middle * middle ELSE middle * middle * middle
    IN  IF low = high THEN low
        ELSE IF power <= n THEN Root(n, k, middle, high)
        ELSE Root(n, k, low, middle - 1)

\* Math.pow(r, 1.0 / 2.4) = r^(5/12): the twelfth root is a square root of a
\* square root of a cube root, and NaN for a negative r.
Pow(a) ==
    CASE a.kind = "nan" -> NotANumber
      [] a.kind = "inf" -> IF a.v > 0 THEN PosInf ELSE NotANumber
      [] a.v < 0 -> NotANumber
      [] OTHER ->
            LET half == Root(a.v * Scale, 2, 0, 5000)
                quarter == Root(half * Scale, 2, 0, 2500)
                twelfth == Root(quarter * Scale * Scale, 3, 0, 1289)
                square == (twelfth * twelfth) \div Scale
                fourth == (square * square) \div Scale
            IN  Num((fourth * twelfth) \div Scale)

\* The gamma correction of one channel (colours.ts lines 23-25).
Gamma(a) ==
    IF FLeq(a, Num(3))
    THEN FMul(Num(12920), a)
    ELSE FAdd(FMul(Num(1055), Pow(a)), Num(-55))

\* Math.floor((r / maxValue) * 255), and 255 for a negative result.
Scaled(a, maxValue) ==
    LET q == FDiv(a, maxValue)
    IN  CASE q.kind = "nan" -> NaN
          [] q.kind = "inf" -> IF q.v < 0 THEN 255 ELSE Infinity
          [] OTHER -> IF (q.v * 255) \div Scale < 0 THEN 255 ELSE (q.v * 255) \div Scale

\* getLightColour(state): xy and bri of the backend to [r, g, b].  state.xy is
\* in thousandths.
getLightColour(state) ==
    LET x == Num(state.xy[1])
        y == Num(state.xy[2])
        Y == Num((state.bri * Scale) \div 255)
        X == FMul(FDiv(Y, y), x)
        Z == FMul(FDiv(Y, y), FAdd(Num(Scale), FNeg(FAdd(x, y))))
        r == FAdd(FAdd(FMul(X, Num(1612)), FNeg(FMul(Y, Num(203)))), FNeg(FMul(Z, Num(302))))
        g == FAdd(FAdd(FMul(FNeg(X), Num(509)), FMul(Y, Num(1412))), FMul(Z, Num(66)))
        b == FAdd(FAdd(FMul(X, Num(26)), FNeg(FMul(Y, Num(72)))), FMul(Z, Num(962)))
        maxValue == FMax(Gamma(r), Gamma(g), Gamma(b))
    IN  <<Scaled(Gamma(r), maxValue), Scaled(Gamma(g), maxValue), Scaled(Gamma(b), maxValue)>>

-----------------------------------------------------------------------------
(* Philips Hue: the responses of the backend *)

\* What the backend reports of a group, a light and a scene.
RawGroup(id, type, name, lights) == [id |-> id, type |-> type, name |-> name, lights |-> lights]
RawLight(reachable, on, bri, xy) == [reachable |-> reachable, on |-> on, bri |-> bri, xy |-> xy]
RawScene(id, type, group, name) == [id |-> id, type |-> type, group |-> group, name |-> name]
Response(groups, lights, scenes) == [groups |-> groups, lights |-> lights, scenes |-> scenes]

\* updateBridgeGroups(): the map of the groups kept, by id.
updateBridgeGroups(response) ==
    LET kept == { i \in 1..Len(response) :
                    /\ response[i].type \in {"LightGroup", "Room", "Zone"}
                    /\ ~(response[i].id = 0 /\ response[i].name = "Group 0") }
    IN  [id \in { response[i].id : i \in kept } |->
            LET group == response[CHOOSE i \in kept : response[i].id = id]
            IN  Group(group.name, group.lights)]

\* The brightness of the snapshot for the brightness the backend reports.
Percentage(bri) == (bri * 100) \div 254

\* Variant: lights the backend reports unreachable are kept as well.
updateBridgeLightsKeepingUnreachable(response) ==
    [id \in DOMAIN response |->
        IF response[id].on
        THEN Light(TRUE, Percentage(response[id].bri), getLightColour(response[id]))
        ELSE LightOff]

\* updateBridgeLights(): the map of the reachable lights, by id.
updateBridgeLights(response) ==
    [id \in { id \in DOMAIN response : response[id].reachable } |->
        IF response[id].on
        THEN Light(TRUE, Percentage(response[id].bri), getLightColour(response[id]))
        ELSE LightOff]

\* updateBridgeScenes(): the scenes kept, in the order of the response.
updateBridgeScenes(response) ==
    LET GroupScenes == SelectSeq(response, LAMBDA scene : scene.type = "GroupScene")
    IN  [i \in 1..Len(GroupScenes) |->
            Scene(GroupScenes[i].id, GroupScenes[i].group, GroupScenes[i].name)]

\* updateBridge(): the snapshot of one round of responses.
Snapshot(raw) ==
    Bridge(updateBridgeGroups(raw.groups), updateBridgeLights(raw.lights),
           updateBridgeScenes(raw.scenes))

\* What updateBridge settles with, next to the responses it was built from.
FetchedRaw(raw) == [failed |-> "", bridge |-> Snapshot(raw), raw |-> raw]

-----------------------------------------------------------------------------
(* The snapshots built from what the backend reports *)

\* The default group, a room, a zone, a group of a type that is not kept, a
\* group of id 0 under another name and a room that is named like the default
\* group.
BackendGroups ==
    { <<RawGroup(0, "LightGroup", "Group 0", <<1, 2>>), RawGroup(1, "Room", "Kitchen", <<1, 2>>),
        RawGroup(3, "Luminaire", "Lamp", <<1>>)>>,
      <<RawGroup(0, "LightGroup", "Everything", <<1, 2>>), RawGroup(1, "Room", "Kitchen", <<1, 2>>),
        RawGroup(2, "Zone", "Hall", <<2>>), RawGroup(4, "Entertainment", "TV", <<1>>),
        RawGroup(5, "Room", "Group 0", <<2>>)>> }

\* A light out of reach that was left on, a light that is off, and two lights
\* that are on.
BackendLightStates ==
    { RawLight(FALSE, TRUE, 254, <<313, 329>>), RawLight(TRUE, FALSE, 0, <<313, 329>>),
      RawLight(TRUE, TRUE, 127, <<313, 329>>), RawLight(TRUE, TRUE, 254, <<200, 700>>) }

BackendLights == [{1, 2} -> BackendLightStates]

BackendScenes ==
    { <<>>,
      <<RawScene("s1", "GroupScene", 1, "Relax"), RawScene("s2", "LightScene", 1, "Dim"),
        RawScene("s3", "GroupScene", 2, "Bright")>> }

BackendResponses ==
    { Response(groups, lights, scenes) :
        groups \in BackendGroups, lights \in BackendLights, scenes \in BackendScenes }

\* One light that is on, over the chromaticities (in thousandths, x + y <= 1)
\* and the brightnesses a light reports.
ColourResponses ==
    { Response(<<RawGroup(1, "Room", "Kitchen", <<1>>)>>, (1 :> RawLight(TRUE, TRUE, bri, xy)), <<>>) :
        bri \in {0, 1, 127, 254},
        xy \in { xy \in {0, 150, 313, 700} \X {0, 60, 329, 700} : xy[1] + xy[2] <= 1000 } }

NextBackend ==
    \/ \E raw \in BackendResponses \cup ColourResponses :
         AddService("Philips Hue", HueRoutines, FetchedRaw(raw))
    \/ \E routine \in BagToSet(timers) : ExecuteRoutine(routine)
    \/ \E routine \in BagToSet(running), raw \in BackendResponses :
         FetchSettled(routine, FetchedRaw(raw), {})

SpecBackend == Init /\ [][NextBackend]_vars

-----------------------------------------------------------------------------
(* C32 *)

\* The last synchronization was given the responses of the backend.
FromResponses == "raw" \in DOMAIN lastSync.answer

\* The positions of the reported groups a snapshot is to keep.
GroupsToKeep(groups) ==
    { i \in 1..Len(groups) :
        /\ groups[i].type \in {"LightGroup", "Room", "Zone"}
        /\ ~(groups[i].id = 0 /\ groups[i].name = "Group 0") }

\* The positions of a group's list of lights whose light is reported
\* reachable and on.
ReportedOn(g, lights) ==
    { k \in DOMAIN g.lights :
        /\ g.lights[k] \in DOMAIN lights
        /\ lights[g.lights[k]].reachable
        /\ lights[g.lights[k]].on }

\* C32: the snapshot built from the backend's responses holds exactly the
\* groups of type LightGroup, Room or Zone other than the group of id 0 named
\* "Group 0", exactly the lights reported reachable, and exactly the scenes of
\* type GroupScene; once it is the cached snapshot, the state composed for any
\* of its groups is that of the member lights reported reachable and on, so
\* that a light out of reach contributes nothing.
C32_SnapshotKeepsWhatIsReachable ==
    FromResponses =>
        LET raw == lastSync.answer.raw
            snapshot == lastSync.answer.bridge
            kept == GroupsToKeep(raw.groups)
            groupScenes == SelectSeq(raw.scenes, LAMBDA scene : scene.type = "GroupScene") IN
        /\ DOMAIN snapshot.groups = { raw.groups[i].id : i \in kept }
        /\ \A i \in kept :
              /\ snapshot.groups[raw.groups[i].id].name = raw.groups[i].name
              /\ snapshot.groups[raw.groups[i].id].lights = raw.groups[i].lights
        /\ DOMAIN snapshot.lights = { id \in DOMAIN raw.lights : raw.lights[id].reachable }
        /\ \A id \in DOMAIN snapshot.lights : snapshot.lights[id].on = raw.lights[id].on
        /\ Len(snapshot.scenes) = Len(groupScenes)
        /\ \A i \in 1..Len(groupScenes) :
              /\ snapshot.scenes[i].id = groupScenes[i].id
              /\ snapshot.scenes[i].group = groupScenes[i].group
              /\ snapshot.scenes[i].name = groupScenes[i].name
        /\ lastSync.result = "ok" =>
              /\ bridge = snapshot
              /\ \A id \in DOMAIN bridge.groups :
                    LET g == bridge.groups[id]
                        lit == ReportedOn(g, raw.lights)
                        state == composeState(g.name, bridge) IN
                    /\ state.on = (lit # {})
                    /\ state.brightness =
                          FloorOfMean([k \in lit |-> (raw.lights[g.lights[k]].bri * 100) \div 254],
                                      lit)

\* A cycle found light 1 out of reach while light 2 is off, and the Kitchen,
\* whose state was another before, composes to off.
C32_Witness ==
    /\ FromResponses
    /\ lastRun.op = "settled"
    /\ lastSync.result = "ok"
    /\ ~lastSync.answer.raw.lights[1].reachable
    /\ lastSync.answer.raw.lights[1].on
    /\ 1 \notin DOMAIN bridge.lights
    /\ "Kitchen" \in DOMAIN lastSync.updates
    /\ ~lastSync.updates["Kitchen"].on
    /\ 0 \in DOMAIN bridge.groups
    /\ 5 \in DOMAIN bridge.groups
    /\ Len(bridge.scenes) = 2

-----------------------------------------------------------------------------
(* C39 *)

\* C39: for every chromaticity and raw brightness the backend reports for a
\* light that is on (brightness 0 and y = 0 included), the colour the snapshot
\* holds for the light is three integers, each within 0..255.
C39_ColourIsThreeBytes ==
    FromResponses =>
        \A id \in DOMAIN lastSync.answer.bridge.lights :
            lastSync.answer.raw.lights[id].on =>
                \A k \in 1..3 : lastSync.answer.bridge.lights[id].colour[k] \in 0..255

-----------------------------------------------------------------------------
(* Philips Hue: the colour command *)

\* A string is the sequence of its characters.
Digits == <<"0", "1", "2", "3", "4", "5", "6", "7", "8", "9">>
UpperLetters == <<"A", "B", "C", "D", "E", "F">>
LowerLetters == <<"a", "b", "c", "d", "e", "f">>

Range(f) == { f[i] : i \in DOMAIN f }

\* Variant: the pattern is matched without the flag i.
TestColourPatternCaseSensitive(colour) ==
    /\ Len(colour) = 6
    /\ \A i \in 1..6 : colour[i] \in Range(Digits) \cup Range(UpperLetters)

\* /^[0-9A-F]{6}$/i.test(colour)
TestColourPattern(colour) ==
    /\ Len(colour) = 6
    /\ \A i \in 1..6 :
          colour[i] \in Range(Digits) \cup Range(UpperLetters) \cup Range(LowerLetters)

\* The value parseInt gives a character in base 16.
DigitValue(c) ==
    LET Position(f) == CHOOSE i \in DOMAIN f : f[i] = c
    IN  CASE c \in Range(Digits) -> Position(Digits) - 1
          [] c \in Range(UpperLetters) -> Position(UpperLetters) + 9
          [] c \in Range(LowerLetters) -> Position(LowerLetters) + 9

\* parseInt(colour.substring(from - 1, from + 1), 16) for two digits of base 16.
ParseByte(colour, from) == DigitValue(colour[from]) * 16 + DigitValue(colour[from + 1])

\* handleColourCommand(group, colour): the pattern is tested, and the three
\* bytes are handed to update(), which is awaited.
HandleColourCommand(group, colour, accepted) ==
    LET patch == [colour |-> <<ParseByte(colour, 1), ParseByte(colour, 3), ParseByte(colour, 5)>>]
        u == update(bridge, group, patch)
        result == IF u.result # "call" THEN u.result
                  ELSE IF accepted THEN "ok" ELSE "backend-unavailable" IN
    /\ IF ~TestColourPattern(colour)
       THEN /\ lastHue' = ("colour" :> colour) @@
                          Access("handleColourCommand", group, NoFields, "invalid-argument",
                                 <<>>, <<>>, origin, Synchronizing)
            /\ UNCHANGED bridge
       ELSE /\ lastHue' = ("colour" :> colour) @@
                          Access("handleColourCommand", group, patch, result, <<>>, u.sets,
                                 origin, Synchronizing)
            /\ bridge' = CacheAfterUpdate(bridge, group, patch, result)
    /\ UNCHANGED <<hubVars, wire, routineVars, connected, lastSync, fetching, origin, given,
                   netVars>>

\* Colours in either case, and strings the pattern refuses: too short, too
\* long, with a letter past F, with a leading #, empty, with a space and with
\* a line feed at the end.
ColourArguments ==
    { <<"F", "F", "0", "0", "0", "0">>, <<"0", "0", "f", "f", "7", "f">>,
      <<"1", "2", "A", "b", "C", "d">>, <<"F", "F", "F", "F", "F", "F">>,
      <<"0", "0", "0", "0", "0", "0">>, <<"9", "a", "0", "9", "e", "E">>,
      <<"F", "F", "0", "0">>, <<"F", "F", "0", "0", "0", "0", "0">>,
      <<"G", "G", "0", "0", "0", "0">>, <<"#", "F", "F", "0", "0", "0">>,
      <<>>, <<"F", "F", " ", "0", "0", "0">>, <<"F", "F", "0", "0", "0", "0", "\n">>,
      <<"#", "F", "F", "0", "0", "0", "0">> }

NextColour ==
    \E group \in {"Kitchen", "Attic"}, colour \in ColourArguments, accepted \in BOOLEAN :
        HandleColourCommand(group, colour, accepted)

SpecColour == InitQueries /\ [][NextColour]_vars

-----------------------------------------------------------------------------
(* C33 *)

\* The two digits of base 16 that write a byte, in upper case.
ToHex(byte) == <<(Digits \o UpperLetters)[(byte \div 16) + 1], (Digits \o UpperLetters)[(byte % 16) + 1]>>

\* The character in upper case.
ToUpper(c) ==
    IF c \in Range(LowerLetters)
    THEN UpperLetters[CHOOSE i \in 1..6 : LowerLetters[i] = c] ELSE c

\* The string is six characters, each a digit of base 16 in either case.
IsRRGGBB(text) ==
    /\ Len(text) = 6
    /\ \A i \in 1..6 : ToUpper(text[i]) \in Range(Digits \o UpperLetters)

\* C33: the colour command given any string other than six hexadecimal digits
\* fails with an invalid-argument error, without calling update() or the
\* bridge; given RRGGBB in either case it calls update() once with the colour
\* [r, g, b] whose bytes, each in 0..255, are written RR, GG and BB, and for a
\* group the snapshot knows that update makes one call of the bridge with
\* that colour.
C33_ColourIsSixHexDigits ==
    [][ Accesses("handleColourCommand") =>
          LET text == lastHue'.colour IN
          IF IsRRGGBB(text)
          THEN /\ lastHue'.result # "invalid-argument"
               /\ DOMAIN lastHue'.patch = {"colour"}
               /\ \A k \in 1..3 :
                     /\ lastHue'.patch.colour[k] \in 0..255
                     /\ ToHex(lastHue'.patch.colour[k]) =
                           <<ToUpper(text[2 * k - 1]), ToUpper(text[2 * k])>>
               /\ KnownGroup(lastHue'.group, bridge) =>
                     /\ Len(lastHue'.sets) = 1
                     /\ DOMAIN lastHue'.sets[1].state = {"xy"}
                     /\ lastHue'.sets[1].state.xy.rgb = lastHue'.patch.colour
          ELSE /\ lastHue'.result = "invalid-argument"
               /\ lastHue'.patch = NoFields
               /\ lastHue'.sets = <<>>
    ]_vars

\* "00ff7f" in lower case has been sent to the Kitchen as [0, 255, 127], and
\* the bridge accepted it.
C33_Witness ==
    /\ lastHue.op = "handleColourCommand"
    /\ lastHue.colour = <<"0", "0", "f", "f", "7", "f">>
    /\ lastHue.group = "Kitchen"
    /\ lastHue.result = "ok"
    /\ Len(lastHue.sets) = 1
    /\ lastHue.sets[1].state.xy.rgb = <<0, 255, 127>>

-----------------------------------------------------------------------------
(* Network: the messages received on the control connections *)

\* What JSON.parse gives for the data of a message: "invalid" when it throws,
\* else the type of the value and, for an object, its own properties.
Json(kind, fields) == [kind |-> kind, fields |-> fields]

\* The test of the listener on what JSON.parse returned: whether one of its
\* three checks throws.  typeof null is 'object', and hasOwnProperty of null
\* throws; an own property named hasOwnProperty shadows the method, and what
\* JSON gives it cannot be called.
ParseThrows(message) ==
    CASE message.kind = "invalid" -> TRUE
      [] message.kind \in {"number", "string", "boolean"} -> TRUE
      [] message.kind = "null" -> TRUE
      [] message.kind = "array" -> TRUE
      [] OTHER ->
           \/ "hasOwnProperty" \in DOMAIN message.fields
           \/ "command" \notin DOMAIN message.fields
           \/ message.fields.command.type # "string"
           \/ "messageId" \notin DOMAIN message.fields
           \/ message.fields.messageId.type # "string"

\* A message whose command is awaited: the socket, and the command and
\* messageId taken from the message.
Handled(client, message) ==
    [client |-> client, command |-> message.fields.command.val,
     messageId |-> message.fields.messageId.val]

\* JSON.stringify({ ...response, messageId }) for the response of a command
\* and the messageId of the message.
Stringify(response, messageId) ==
    [k \in DOMAIN response \cup {"messageId"} |->
        IF k = "messageId" THEN S(messageId) ELSE response[k]]

\* The call webSocket.send(object) on the socket of the client; whether the
\* socket is still open for it is `open`.
Send(client, object, open) == [client |-> client, object |-> object, open |-> open]

Respond(entry, response) ==
    <<Send(entry.client, Stringify(response, entry.messageId),
           entry.client \notin closed \cup closing)>>

\* The listener of 'message' up to its first await on the delegate; 'hello'
\* is answered by handleInternalCommand, which awaits nothing.
OnMessage(client, message) ==
    /\ client \notin closed
    /\ IF ParseThrows(message)
       THEN /\ closing' = closing \cup {client}
            /\ network' = Inbound("message", client, message, <<>>)
            /\ UNCHANGED handling
       ELSE LET entry == Handled(client, message) IN
            IF entry.command = "hello"
            THEN /\ network' = Inbound("message", client, message,
                                       Respond(entry, [ip |-> S(client)]))
                 /\ UNCHANGED <<handling, closing>>
            ELSE /\ entry \notin handling
                 /\ Cardinality(handling) < MaxInFlight
                 /\ handling' = handling \cup {entry}
                 /\ network' = Inbound("message", client, message, <<>>)
                 /\ UNCHANGED closing
    /\ UNCHANGED <<hubVars, wire, routineVars, hueVars, controlVars>>

\* The command of a message settles: `outcome` is "object" when it resolved
\* with `result`, "null" when no router knew it and "throws" when it rejected
\* with an Error.  The response is sent with the messageId of the message.
CommandSettled(entry, outcome, result) ==
    LET response == IF outcome = "object" THEN result
                    ELSE [error |-> S(outcome)] IN
    /\ entry \in handling
    /\ handling' = handling \ {entry}
    /\ network' = Inbound("response", entry.client, [entry |-> entry, outcome |-> outcome],
                          Respond(entry, response))
    /\ UNCHANGED <<hubVars, wire, routineVars, hueVars, closing, controlVars>>

\* Messages: well-formed ones for a command of the server, of a service and
\* of no router, one with a parameter named hasOwnProperty, ones without a
\* textual command or messageId, and data that is no JSON object.
InboundMessages ==
    { Json("object", [command |-> S("hello"), messageId |-> S("m1")]),
      Json("object", [command |-> S("philips-hue-power"), messageId |-> S("m2"),
                      group |-> S("1"), on |-> B("true")]),
      Json("object", [command |-> S("unknown"), messageId |-> S("m3")]),
      Json("object", [command |-> S("hello"), messageId |-> S("m4"),
                      hasOwnProperty |-> B("true")]),
      Json("object", [command |-> S("hello")]),
      Json("object", [command |-> S("hello"), messageId |-> N("1")]),
      Json("object", [command |-> N("1"), messageId |-> S("m5")]),
      Json("object", [messageId |-> S("m6")]),
      Json("invalid", <<>>), Json("null", <<>>), Json("array", <<>>), Json("number", <<>>) }

\* What a command resolves with: no data, a state, and an object that has a
\* messageId of its own.
CommandResults ==
    { <<>>, [state |-> S("on")], [messageId |-> S("other"), success |-> B("true")] }

NextNetwork ==
    \/ \E client \in Clients, message \in InboundMessages : OnMessage(client, message)
    \/ \E entry \in handling, outcome \in {"object", "null", "throws"} :
         \E result \in CommandResults : CommandSettled(entry, outcome, result)
    \/ \E client \in Clients : Disconnect(client)

SpecNetwork == Init /\ [][NextNetwork]_vars

-----------------------------------------------------------------------------
(* C34 *)

\* The message is a JSON object with a string command and a string messageId.
WellFormed(message) ==
    /\ message.kind = "object"
    /\ "command" \in DOMAIN message.fields
    /\ message.fields.command.type = "string"
    /\ "messageId" \in DOMAIN message.fields
    /\ message.fields.messageId.type = "string"

\* The step sends one response, to the given client only, with the messageId.
SendsOneResponse(client, messageId) ==
    /\ Len(network'.sends) = 1
    /\ network'.sends[1].client = client
    /\ network'.sends[1].object.messageId = S(messageId)

\* C34: a well-formed message is answered by exactly one response, sent on
\* the socket it was received on with its messageId, at once or when its
\* command settles, and the socket is not closed; the response has an error
\* field when the command failed or no router knew it; a malformed message is
\* sent no response and its socket is closed.
C34_OneResponsePerMessage ==
    [][ /\ (network' # network /\ network'.op = "message") =>
              IF WellFormed(network'.message)
              THEN /\ closing' = closing
                   /\ \/ SendsOneResponse(network'.client,
                                          network'.message.fields.messageId.val)
                      \/ /\ network'.sends = <<>>
                         /\ Handled(network'.client, network'.message) \in handling'
              ELSE /\ network'.sends = <<>>
                   /\ network'.client \in closing'
        /\ (network' # network /\ network'.op = "response") =>
              /\ SendsOneResponse(network'.client, network'.message.entry.messageId)
              /\ network'.message.outcome # "object" =>
                    "error" \in DOMAIN network'.sends[1].object
      ]_vars

-----------------------------------------------------------------------------
(* ControlConnection: the connection of a client with the hub *)

\* The message ids generateMessageId can give in one run.
MaxMessages == 4

\* A promise sendInternal returned: whether it is the one of the hello of
\* onOpen or of a send(), and how it was settled ("pending" while it is not,
\* "message" with a message of the hub, "null" by connect(), "rejected").
Promise(kind, outcome) == [kind |-> kind, outcome |-> outcome]

\* The resolver of each of the given ids is called: a pending promise is
\* settled, a settled one is left as it is.
Resolve(ps, ids, outcome) ==
    [id \in DOMAIN ps |->
        IF id \in ids /\ ps[id].outcome = "pending"
        THEN Promise(ps[id].kind, outcome) ELSE ps[id]]

\* Whether resolving the given ids settles the promise of a hello, so that the
\* callback onOpen attached to it runs next.
SettlesHello(ps, ids) ==
    \E id \in ids : ps[id].kind = "hello" /\ ps[id].outcome = "pending"

\* The callback of onOpen, run in the given state: what the state becomes and
\* the event that is dispatched.
AfterHello(state) ==
    IF state # "CONNECTING" THEN [state |-> state, dispatched |-> ""]
    ELSE [state |-> "CONNECTED", dispatched |-> "connect"]

\* connect(), called by `op`: it throws unless the state is DISCONNECTED, else
\* it resolves every pending promise with null, sets the state and creates
\* the socket; the callbacks of the promises it resolved run once it returned.
ConnectBody(op) ==
    IF controlState # "DISCONNECTED"
    THEN /\ trace' = Step(op, "", TRUE, 0)
         /\ UNCHANGED <<controlState, socket, responses, promises, inFlight>>
    ELSE LET after == IF SettlesHello(promises, responses) THEN AfterHello("CONNECTING")
                      ELSE [state |-> "CONNECTING", dispatched |-> ""] IN
         /\ promises' = Resolve(promises, responses, "null")
         /\ responses' = {}
         /\ socket' = "CONNECTING"
         /\ controlState' = after.state
         /\ trace' = Step(op, after.dispatched, FALSE, 0)
         /\ UNCHANGED inFlight

\* The page calls connect() once, when it is loaded.
Connect ==
    /\ socket = "NONE"
    /\ ConnectBody("connect")
    /\ UNCHANGED reconnectTimers
    /\ UNCHANGED <<hubVars, wire, routineVars, hueVars, serverVars>>

\* The timer of onClose fires and calls connect().
TimerFires ==
    /\ reconnectTimers > 0
    /\ reconnectTimers' = reconnectTimers - 1
    /\ ConnectBody("timer")
    /\ UNCHANGED <<hubVars, wire, routineVars, hueVars, serverVars>>

\* The socket emits 'open': onOpen sends the hello.
Open ==
    LET id == Len(promises) + 1 IN
    /\ socket = "CONNECTING"
    /\ id <= MaxMessages
    /\ socket' = "OPEN"
    /\ promises' = Append(promises, Promise("hello", "pending"))
    /\ responses' = responses \cup {id}
    /\ inFlight' = inFlight \cup {id}
    /\ trace' = Step("open", "", FALSE, id)
    /\ UNCHANGED <<controlState, reconnectTimers>>
    /\ UNCHANGED <<hubVars, wire, routineVars, hueVars, serverVars>>

\* The socket emits 'error': onError closes it.
Error ==
    /\ socket \in {"CONNECTING", "OPEN"}
    /\ socket' = "CLOSING"
    /\ trace' = Step("error", "", FALSE, 0)
    /\ UNCHANGED <<controlState, responses, promises, inFlight, reconnectTimers>>
    /\ UNCHANGED <<hubVars, wire, routineVars, hueVars, serverVars>>

\* Variant: 'disconnect' is dispatched whatever the state was.
onCloseAlwaysDispatching(state) ==
    IF state = "DISCONNECTED" THEN [state |-> state, dispatched |-> "", timers |-> 0]
    ELSE [state |-> "DISCONNECTED", dispatched |-> "disconnect", timers |-> 1]

\* onClose() in the given state: the state it leaves, the event it dispatches
\* and the number of timers it sets.
onClose(state) ==
    IF state = "DISCONNECTED" THEN [state |-> state, dispatched |-> "", timers |-> 0]
    ELSE [state |-> "DISCONNECTED",
          dispatched |-> IF state = "CONNECTED" THEN "disconnect" ELSE "",
          timers |-> 1]

\* The socket emits 'close', whether the connection failed, was lost or was
\* closed by onError; what the hub had not answered is lost.
Close ==
    LET after == onClose(controlState) IN
    /\ socket \in {"CONNECTING", "OPEN", "CLOSING"}
    /\ socket' = "CLOSED"
    /\ inFlight' = {}
    /\ controlState' = after.state
    /\ reconnectTimers' = reconnectTimers + after.timers
    /\ trace' = Step("close", after.dispatched, FALSE, 0)
    /\ UNCHANGED <<responses, promises>>
    /\ UNCHANGED <<hubVars, wire, routineVars, hueVars, serverVars>>

\* send(message) of the page.  It throws unless the state is CONNECTED and the
\* message an object with a command; sendInternal then gives the message an
\* id and hands it to the socket, which throws while it is CONNECTING and
\* discards the data once it is CLOSING.
SendMessage(valid) ==
    LET id == Len(promises) + 1 IN
    IF controlState # "CONNECTED" \/ ~valid
    THEN /\ trace' = Step("send", "", TRUE, 0)
         /\ UNCHANGED <<controlState, socket, responses, promises, inFlight, reconnectTimers>>
         /\ UNCHANGED <<hubVars, wire, routineVars, hueVars, serverVars>>
    ELSE /\ id <= MaxMessages
         /\ IF socket = "CONNECTING"
            THEN /\ promises' = Append(promises, Promise("send", "rejected"))
                 /\ trace' = Step("send", "", TRUE, id)
                 /\ UNCHANGED <<responses, inFlight>>
            ELSE /\ promises' = Append(promises, Promise("send", "pending"))
                 /\ responses' = responses \cup {id}
                 /\ inFlight' = IF socket = "OPEN" THEN inFlight \cup {id} ELSE inFlight
                 /\ trace' = Step("send", "", FALSE, id)
         /\ UNCHANGED <<controlState, socket, reconnectTimers>>
         /\ UNCHANGED <<hubVars, wire, routineVars, hueVars, serverVars>>

\* The hub answers the message of the given id: onMessage finds a messageId
\* and calls the resolver stored under it, if there is one.
HubResponds(id) ==
    LET after == IF id \in responses /\ SettlesHello(promises, {id})
                 THEN AfterHello(controlState)
                 ELSE [state |-> controlState, dispatched |-> ""] IN
    /\ socket = "OPEN"
    /\ id \in inFlight
    /\ inFlight' = inFlight \ {id}
    /\ promises' = Resolve(promises, responses \cap {id}, "message")
    /\ controlState' = after.state
    /\ trace' = Step("message", after.dispatched, FALSE, id)
    /\ UNCHANGED <<socket, responses, reconnectTimers>>
    /\ UNCHANGED <<hubVars, wire, routineVars, hueVars, serverVars>>

\* The hub sends a message of its own, without messageId: onMessage
\* dispatches it as a 'message' event.
HubNotifies ==
    /\ socket = "OPEN"
    /\ trace' = Step("message", "message", FALSE, 0)
    /\ UNCHANGED <<controlState, socket, responses, promises, inFlight, reconnectTimers>>
    /\ UNCHANGED <<hubVars, wire, routineVars, hueVars, serverVars>>

NextControl ==
    \/ Connect
    \/ TimerFires
    \/ Open
    \/ Error
    \/ Close
    \/ \E valid \in BOOLEAN : SendMessage(valid)
    \/ \E id \in 1..MaxMessages : HubResponds(id)
    \/ HubNotifies

SpecControl == Init /\ [][NextControl]_vars

\* Timers fire, a socket that is being closed emits 'close', and the hub
\* answers a message it has received for as long as the socket is open.
FairControl ==
    /\ WF_vars(TimerFires)
    /\ WF_vars(socket = "CLOSING" /\ Close)
    /\ \A id \in 1..MaxMessages : WF_vars(HubResponds(id))

FairSpecControl == SpecControl /\ FairControl

-----------------------------------------------------------------------------
(* C35 *)

\* The hello sent on the current socket has been acknowledged by the hub:
\* #responses holds what was sent since the socket was created.
HelloAcknowledged ==
    \E id \in responses : promises[id].kind = "hello" /\ promises[id].outcome = "message"

\* C35: whenever the state is STATE_CONNECTED, and whenever 'connect' has
\* just been dispatched, the current socket has opened and not closed, and
\* the hub has acknowledged the hello sent on it.
C35_ConnectedMeansAcknowledged ==
    (controlState = "CONNECTED" \/ trace.dispatched = "connect") =>
        /\ socket \in {"OPEN", "CLOSING"}
        /\ HelloAcknowledged

-----------------------------------------------------------------------------
(* C36 *)

\* The step is the 'close' of the socket.
SocketCloses == socket # "CLOSED" /\ socket' = "CLOSED"

\* C36: a close in a state other than DISCONNECTED leaves the state
\* DISCONNECTED and sets one timer; never more than one timer is pending; the
\* connect() a timer calls finds the state DISCONNECTED and does not throw;
\* 'disconnect' is dispatched only when the state was CONNECTED; and the state
\* enters CONNECTED exactly in the steps that dispatch 'connect' and leaves it
\* exactly in those that dispatch 'disconnect', so that the two alternate.
C36_OneReconnectPerClose ==
    [][ /\ (SocketCloses /\ controlState # "DISCONNECTED") =>
              /\ controlState' = "DISCONNECTED"
              /\ reconnectTimers' = reconnectTimers + 1
        /\ reconnectTimers' <= 1
        /\ reconnectTimers' < reconnectTimers =>
              /\ controlState = "DISCONNECTED"
              /\ ~trace'.threw
        /\ (controlState # "CONNECTED" /\ controlState' = "CONNECTED") <=>
              (trace' # trace /\ trace'.dispatched = "connect")
        /\ (controlState = "CONNECTED" /\ controlState' # "CONNECTED") <=>
              (trace' # trace /\ trace'.dispatched = "disconnect")
      ]_vars

\* A connection that had been established was lost, 'disconnect' was
\* dispatched, and the timer has started the next attempt.
C36_Witness ==
    /\ trace.op = "timer"
    /\ ~trace.threw
    /\ controlState = "CONNECTING"
    /\ socket = "CONNECTING"
    /\ reconnectTimers = 0
    /\ \E id \in DOMAIN promises :
          promises[id].kind = "hello" /\ promises[id].outcome = "message"

-----------------------------------------------------------------------------
(* C37 *)

\* The promise of the given message id has been created by a send().
Sent(id) == id \in DOMAIN promises /\ promises[id].kind = "send"

\* C37: a promise that send() returned is settled once and for all, with the
\* message of the hub that carries its messageId or with null by a connect(),
\* and with nothing else; each such promise is settled eventually; and a
\* message without messageId settles no promise and is dispatched as a
\* 'message' event.
C37_EverySendIsSettled ==
    /\ [][ \A id \in 1..MaxMessages :
              /\ (Sent(id) /\ promises[id].outcome # "pending") =>
                    promises'[id] = promises[id]
              /\ (id \in DOMAIN promises' /\ promises'[id].kind = "send") =>
                    promises'[id].outcome \in {"pending", "message", "null"}
              /\ (Sent(id) /\ promises[id].outcome = "pending"
                           /\ promises'[id].outcome = "message") =>
                    (trace'.op = "message" /\ trace'.id = id)
              /\ (Sent(id) /\ promises[id].outcome = "pending"
                           /\ promises'[id].outcome = "null") =>
                    trace'.op \in {"connect", "timer"}
              /\ (trace' # trace /\ trace'.op = "message" /\ trace'.id = 0) =>
                    (promises' = promises /\ trace'.dispatched = "message")
         ]_vars
    /\ \A id \in 1..MaxMessages :
          (Sent(id) /\ promises[id].outcome = "pending") ~>
              (Sent(id) /\ promises[id].outcome \in {"message", "null"})

-----------------------------------------------------------------------------
(* The brightness between the bridge and the hub *)

\* The Kitchen holds three lights that are on; between them the responses
\* carry every brightness the bridge can report, 0..254.
BrightnessResponses ==
    { Response(<<RawGroup(1, "Room", "Kitchen", <<1, 2, 3>>)>>,
               (1 :> RawLight(TRUE, TRUE, bri, <<313, 329>>)) @@
               (2 :> RawLight(TRUE, TRUE, bri + 85, <<200, 700>>)) @@
               (3 :> RawLight(TRUE, TRUE, bri + 170, <<313, 329>>)),
               <<>>) :
        bri \in 0..84 }

\* The percentages a command may carry, and the two next to them.
Percentages == -1..101

NextBrightness ==
    \/ \E raw \in BrightnessResponses : AddService("Philips Hue", HueRoutines, FetchedRaw(raw))
    \/ \E percentage \in Percentages : Update("Kitchen", [brightness |-> percentage], TRUE)
    \/ ComposeState("Kitchen")

SpecBrightness == Init /\ [][NextBrightness]_vars

-----------------------------------------------------------------------------
(* C38 *)

\* The brightness the snapshot holds once the backend reports the raw
\* brightness b that was sent to it.
ReadBack(b) == Percentage(b)

\* C38: a raw brightness in 0..254 is held as a brightness in 0..100; a
\* percentage p in 0..100 is sent as a raw brightness in 0..254, which read
\* back is held as p or p - 1; and the state composed for a group whose
\* member lights that are on have a brightness in 0..100 and colour
\* components in 0..255 has them in these ranges too.
C38_BrightnessStaysInRange ==
    [][ /\ (lastSync' # lastSync /\ "raw" \in DOMAIN lastSync'.answer) =>
              \A id \in DOMAIN lastSync'.answer.bridge.lights :
                 (/\ lastSync'.answer.raw.lights[id].on
                  /\ lastSync'.answer.raw.lights[id].bri \in 0..254) =>
                     lastSync'.answer.bridge.lights[id].brightness \in 0..100
        /\ (/\ UpdatesFields({"brightness"})
            /\ lastHue'.patch.brightness \in 0..100) =>
              /\ lastHue'.result = "ok"
              /\ Len(lastHue'.sets) = 1
              /\ lastHue'.sets[1].state.bri \in 0..254
              /\ ReadBack(lastHue'.sets[1].state.bri) \in
                    {lastHue'.patch.brightness, lastHue'.patch.brightness - 1}
        /\ (Accesses("composeState") /\ KnownGroup(lastHue'.group, bridge)) =>
              LET g == bridge.groups[findGroupId(lastHue'.group, bridge)]
                  lit == MembersOn(g, bridge) IN
              (\A k \in lit :
                  /\ bridge.lights[g.lights[k]].brightness \in 0..100
                  /\ \A c \in 1..3 : bridge.lights[g.lights[k]].colour[c] \in 0..255) =>
                 /\ lastHue'.state.brightness \in 0..100
                 /\ \A c \in 1..3 : lastHue'.state.colour[c] \in 0..255
      ]_vars

\* The snapshot holds 100 for the raw brightness 254 of light 1, and the
\* percentage 99 has been sent as 251, which reads back as 98.
C38_Witness ==
    /\ lastHue.op = "update"
    /\ lastHue.patch = [brightness |-> 99]
    /\ lastHue.result = "ok"
    /\ lastHue.sets[1].state.bri = 251
    /\ ReadBack(251) = 98
    /\ "raw" \in DOMAIN lastSync.answer
    /\ lastSync.answer.raw.lights[3].bri = 254
    /\ bridge.lights[3].brightness = 100

=============================================================================
